---------------------------- MODULE Spec2Model ----------------------------
(***************************************************************************)
(* Sky Fury: the real-time combat simulation (aircraft, weapon system,     *)
(* enemies and bosses, enemy manager, level manager, collision pass and    *)
(* the game loop's update).                                                *)
(*                                                                         *)
(* Numbers.  The program computes in floats; the model computes in exact   *)
(* integers at fixed scales:                                               *)
(*   time            milliseconds (dt = clock.tick(FPS) / 1000.0, so dt is *)
(*                   a whole number of milliseconds in the program too)    *)
(*   positions, velocities   1/1000 pixel                                  *)
(*   angles                  1/1000 degree                                 *)
(*   shield energy, laser charge   1/1000 unit                             *)
(*   fuel                    1/1000000 unit                                *)
(*   enemy and boss health   1/100000 point                                *)
(*   aircraft health, thrust, score, lives   units                         *)
(* A product with a float factor is rounded down to the scale.             *)
(***************************************************************************)
EXTENDS Integers, Sequences, FiniteSets, TLC

VARIABLES
    aircraft,        \* the Aircraft object
    weapon_system,   \* the WeaponSystem object (linked to the aircraft)
    enemy_manager,   \* the EnemyManager object
    level_manager,   \* the LevelManager object
    powerup_manager, \* the PowerUpManager object
    game,            \* the SkyFury object's own fields (state, level, fade)
    ev,              \* what the last step was: operation, argument, result, calls
    steps,           \* number of steps taken (bounds the specifications)
    hist,            \* history: bosses spawned and destroyed in the level, and
                     \* the ms of Aircraft.update since the last take_damage
                     \* that landed (-1: none since the last reset)
    plan             \* how the inputs of the game loop are chosen: the play
                     \* followed, and the ticks taken off it

vars == <<aircraft, weapon_system, enemy_manager, level_manager,
          powerup_manager, game, ev, steps, hist, plan>>

----------------------------------------------------------------------------
(* Scales *)

MS == 1000
MILLI == MS
FUEL_SCALE == MS * MS
HP == 100 * MS

Min(a, b) == IF a <= b THEN a ELSE b
Max(a, b) == IF a >= b THEN a ELSE b
Abs(a) == IF a >= 0 THEN a ELSE 0 - a

\* sin of an angle given in 1/1000 degree, in 1/1000: x - x^3/6 + x^5/120
SinMilli(angle) ==
    LET x  == (angle * 17453) \div 1000000
        x2 == (x * x) \div 1000
        x3 == (x2 * x) \div 1000
        x5 == (((x3 * x) \div 1000) * x) \div 1000
    IN  x - (x3 \div 6) + (x5 \div 120)

----------------------------------------------------------------------------
(* aircraft.py: constants *)

GRAVITY == 300
GROUND_LEVEL == 500000
RUNWAY_X_START == 50000
RUNWAY_X_END == 300000
MIN_TAKEOFF_SPEED == 3500
MAX_LANDING_SPEED == 3000
MAX_LANDING_ANGLE == 15000
TAKEOFF_X == 240000
TAKEOFF_ANGLE == 15000
TAKEOFF_CLIMB == 2200
MAX_SPEED == 10000
HIT_INVULNERABLE_MS == 200
RESPAWN_INVULNERABLE_MS == 2000

\* Aircraft.__init__
NewAircraft ==
    [ x |-> 100000, y |-> GROUND_LEVEL, vx |-> 0, vy |-> 0, angle |-> 0,
      on_ground |-> TRUE, has_taken_off |-> FALSE, thrust |-> 0,
      flaps |-> 0, gear_down |-> TRUE, brakes_active |-> FALSE,
      spoilers_active |-> FALSE,
      health |-> 100, max_health |-> 100,
      fuel |-> 100 * FUEL_SCALE, max_fuel |-> 100 * FUEL_SCALE,
      shield_active |-> FALSE, shield_duration |-> 0,
      score |-> 0, lives |-> 3,
      invulnerable |-> FALSE, invulnerable_timer |-> 0,
      timer_residue |-> FALSE ]

\* WeaponSystem.__init__
NewWeaponSystem ==
    [ primary_level |-> 1, missile_count |-> 5, max_missiles |-> 10,
      laser_charge |-> 0, max_laser_charge |-> 100 * MILLI,
      shield_energy |-> 50 * MILLI, max_shield_energy |-> 100 * MILLI,
      is_charging_laser |-> FALSE,
      cooldowns |-> [primary |-> 0, missile |-> 0, laser |-> 0, shield |-> 0],
      bullets |-> <<>>, missiles |-> <<>>, lasers |-> <<>> ]

(***************************************************************************)
(* The operations below take the world w, a record of the program's        *)
(* objects (aircraft, weapon_system, enemy_manager, level_manager,         *)
(* powerup_manager, game) and of what the step has done so far (calls:     *)
(* the calls made; touch: the values a landing check read; hits: what      *)
(* happened to the health), and return the world after the operation.      *)
(***************************************************************************)

Called(w, name) == [w EXCEPT !.calls = @ \cup {name}]

\* The step's record of what an operation did to the aircraft's health: the
\* protection in force when it was called and the health before and after
Hit(w, op, w2) ==
    [w2 EXCEPT !.hits = Append(@,
        [ op |-> op,
          invulnerable |-> w.aircraft.invulnerable,
          invulnerable_timer |-> w.aircraft.invulnerable_timer,
          timer_residue |-> w.aircraft.timer_residue,
          shield_active |-> w.aircraft.shield_active,
          shield_energy |-> w.weapon_system.shield_energy,
          before |-> w.aircraft.health,
          after |-> w2.aircraft.health,
          energy_after |-> w2.weapon_system.shield_energy,
          shield_after |-> w2.aircraft.shield_active ])]

\* Aircraft.land
Aircraft_land(w) ==
    Called([w EXCEPT !.aircraft.on_ground = TRUE,
                     !.aircraft.vy = 0,
                     !.aircraft.y = GROUND_LEVEL,
                     !.aircraft.gear_down = TRUE], "land")

\* Variant of Aircraft.crash that also puts the aircraft on the ground
Aircraft_crash_grounded(w) ==
    Hit(w, "crash",
        Called([w EXCEPT !.aircraft.health = 0, !.aircraft.on_ground = TRUE],
               "crash"))

\* Aircraft.crash
Aircraft_crash(w) ==
    Hit(w, "crash", Called([w EXCEPT !.aircraft.health = 0], "crash"))

\* Variant of Aircraft._check_landing that does not look at the angle
Aircraft_check_landing_any_angle(w) ==
    LET a  == w.aircraft
        w1 == [w EXCEPT !.touch = <<[x |-> a.x, vy |-> a.vy, angle |-> a.angle]>>]
    IN
    IF RUNWAY_X_START <= a.x /\ a.x <= RUNWAY_X_END /\ Abs(a.vy) <= MAX_LANDING_SPEED
    THEN Aircraft_land(w1)
    ELSE Aircraft_crash(w1)

\* Aircraft._check_landing; the world's touch records the values the check read
Aircraft_check_landing(w) ==
    LET a  == w.aircraft
        w1 == [w EXCEPT !.touch = <<[x |-> a.x, vy |-> a.vy, angle |-> a.angle]>>]
    IN
    IF RUNWAY_X_START <= a.x /\ a.x <= RUNWAY_X_END
    THEN IF Abs(a.vy) <= MAX_LANDING_SPEED /\ Abs(a.angle) <= MAX_LANDING_ANGLE
         THEN Aircraft_land(w1)
         ELSE Aircraft_crash(w1)
    ELSE Aircraft_crash(w1)

\* Variant of the takeoff condition with the angle of MIN_TAKEOFF_ANGLE (5.0),
\* a constant aircraft.py defines and never reads
TakeoffReady_min_angle(x, v, ang) ==
    x >= TAKEOFF_X /\ v >= MIN_TAKEOFF_SPEED /\ ang >= 5000

\* Aircraft._update_ground_physics, the condition of "Natural takeoff"
TakeoffReady(x, v, ang) ==
    x >= TAKEOFF_X /\ v >= MIN_TAKEOFF_SPEED /\ ang >= TAKEOFF_ANGLE

\* Aircraft._update_ground_physics
Aircraft_update_ground_physics(w, dt) ==
    LET a   == w.aircraft
        v1  == IF a.thrust > 0 THEN a.vx + (a.thrust * 250 * dt) \div MS ELSE a.vx
        v2  == IF a.brakes_active THEN (v1 * 95) \div 100 ELSE (v1 * 97) \div 100
        v3  == Min(v2, MAX_SPEED)
        x1  == a.x + v3
        ang == Max(0, Min(25000, a.angle))
        w1  == [w EXCEPT !.aircraft.vx = v3, !.aircraft.x = x1,
                         !.aircraft.angle = ang]
    IN  IF TakeoffReady(x1, v3, ang)
        THEN Called([w1 EXCEPT !.aircraft.on_ground = FALSE,
                               !.aircraft.has_taken_off = TRUE,
                               !.aircraft.gear_down = FALSE,
                               !.aircraft.vy = 0 - TAKEOFF_CLIMB], "takeoff")
        ELSE w1

\* Aircraft._update_air_physics, "Thrust affects horizontal speed"
Aircraft_air_thrust(a, dt) ==
    IF a.thrust > 0 /\ a.fuel > 0
    THEN a.vx + (a.thrust * 125 * dt) \div MS ELSE a.vx

\* Aircraft._update_air_physics, velocity.x after drag, flaps and the limit
Aircraft_air_vx(a, v1) ==
    LET v2 == IF a.spoilers_active THEN (v1 * 96) \div 100 ELSE (v1 * 97) \div 100
        v3 == IF a.flaps > 0 THEN (v2 * 98) \div 100 ELSE v2
    IN  Min(v3, MAX_SPEED)

\* Aircraft._update_air_physics, velocity.y after lift, gravity, drag, flaps,
\* spoilers and the limit
Aircraft_air_vy(a, v1, dt) ==
    LET lift == (((SinMilli(a.angle) * 80) \div 1000) * v1) \div 1000
        u2   == ((a.vy - lift + (GRAVITY * dt) \div MS) * 99) \div 100
        u3   == IF a.flaps > 0 THEN u2 - (a.flaps * 20) \div 1000 ELSE u2
        u4   == IF a.spoilers_active THEN u3 + 100 ELSE u3
    IN  Max(0 - 5000, Min(5000, u4))

\* Aircraft._update_air_physics, "Update position" and the clamps
Aircraft_air_move(w, vx, vy) ==
    [w EXCEPT !.aircraft.vx = vx, !.aircraft.vy = vy,
              !.aircraft.x = IF w.aircraft.has_taken_off
                             THEN Max(50000, Min(250000, @ + vx))
                             ELSE Max(20000, Min(780000, @ + vx)),
              !.aircraft.y = Max(20000, Min(580000, @ + vy)),
              !.aircraft.angle = Max(0 - 10000, Min(30000, @))]

\* Aircraft._update_air_physics, "Check if landed"
Aircraft_air_landed(w) ==
    IF w.aircraft.y >= GROUND_LEVEL THEN Aircraft_check_landing(w) ELSE w

\* Aircraft._update_air_physics with v1 the speed that the thrust leaves
Aircraft_air_physics(w, v1, dt) ==
    Aircraft_air_landed(
        Aircraft_air_move(w, Aircraft_air_vx(w.aircraft, v1),
                          Aircraft_air_vy(w.aircraft, v1, dt)))

\* Aircraft._update_air_physics
Aircraft_update_air_physics(w, dt) ==
    Aircraft_air_physics(w, Aircraft_air_thrust(w.aircraft, dt), dt)

\* Aircraft.update, "self.invulnerable_timer -= dt" in IEEE doubles.  The
\* timer is kept in ms; timer_residue says that the double is greater than
\* the ms value by a rounding residue.  0.2 - 0.05 is 0.15000000000000002;
\* the subtractions of 0.05 and 0.1 that follow are exact, so that four
\* updates of 0.05 s leave 1.39e-17 and not 0.  The other subtractions of
\* the frame times used here leave no positive residue at 0.
FloatResidue(timer, dt) == timer = HIT_INVULNERABLE_MS /\ dt = 50

\* Variant of the invulnerability countdown that ends only below 0
Aircraft_update_invulnerability_late(w, dt) ==
    LET a == w.aircraft IN
    IF a.invulnerable
    THEN LET t == a.invulnerable_timer - dt
             r == a.timer_residue \/ FloatResidue(a.invulnerable_timer, dt)
         IN  [w EXCEPT !.aircraft.invulnerable_timer = t,
                       !.aircraft.timer_residue = r,
                       !.aircraft.invulnerable = ~(t < 0)]
    ELSE w

\* Aircraft.update, "Update invulnerability timer"
Aircraft_update_invulnerability(w, dt) ==
    LET a == w.aircraft IN
    IF a.invulnerable
    THEN LET t == a.invulnerable_timer - dt
             r == a.timer_residue \/ FloatResidue(a.invulnerable_timer, dt)
         IN  [w EXCEPT !.aircraft.invulnerable_timer = t,
                       !.aircraft.timer_residue = r,
                       !.aircraft.invulnerable = ~(t < 0 \/ (t = 0 /\ ~r))]
    ELSE w

\* Aircraft.update as the history sees it: dt more since the last hit
Aircraft_update_clock(w, dt) ==
    IF w.hist.hit_clock >= 0 THEN [w EXCEPT !.hist.hit_clock = @ + dt] ELSE w

\* Aircraft.update, "Update shield"
Aircraft_update_shield(w, dt) ==
    LET a == w.aircraft IN
    IF a.shield_active
    THEN LET d == a.shield_duration - dt
             e == Max(0, w.weapon_system.shield_energy - 3 * dt)
             off == d <= 0 \/ e <= 0
         IN  [w EXCEPT !.weapon_system.shield_energy = e,
                       !.aircraft.shield_duration = IF off THEN 0 ELSE d,
                       !.aircraft.shield_active = ~off]
    ELSE w

\* Variant of the fuel consumption that leaves the thrust when the fuel is
\* burnt
Aircraft_update_fuel_keeps_thrust(w, dt) ==
    LET a == w.aircraft IN
    IF a.thrust > 0
    THEN [w EXCEPT !.aircraft.fuel = Max(0, a.fuel - a.thrust * 5 * dt)]
    ELSE w

\* Aircraft.update, "Update fuel consumption"
Aircraft_update_fuel(w, dt) ==
    LET a == w.aircraft IN
    IF a.thrust > 0
    THEN LET f == Max(0, a.fuel - a.thrust * 5 * dt)
         IN  [w EXCEPT !.aircraft.fuel = f,
                       !.aircraft.thrust = IF f <= 0 THEN 0 ELSE a.thrust]
    ELSE w

\* Aircraft.update, "if self.on_ground"
Aircraft_update_physics(w, dt) ==
    IF w.aircraft.on_ground
    THEN Aircraft_update_ground_physics(w, dt)
    ELSE Aircraft_update_air_physics(w, dt)

\* Aircraft.update
Aircraft_update(w, dt) ==
    Aircraft_update_fuel(
        Aircraft_update_physics(
            Aircraft_update_shield(
                Aircraft_update_invulnerability(Aircraft_update_clock(w, dt), dt),
                dt),
            dt),
        dt)

\* Variant of Aircraft.take_damage without the floor at 0
Aircraft_take_damage_unfloored(w, amount) ==
    LET a == w.aircraft IN
    Hit(w, "take_damage",
        IF a.invulnerable
        THEN w
        ELSE [w EXCEPT !.aircraft.health = a.health - amount,
                       !.aircraft.invulnerable = TRUE,
                       !.aircraft.invulnerable_timer = HIT_INVULNERABLE_MS,
                       !.aircraft.timer_residue = FALSE,
                       !.hist.hit_clock = 0])

\* Aircraft.take_damage: the world after the call
Aircraft_take_damage(w, amount) ==
    LET a == w.aircraft IN
    Hit(w, "take_damage",
        IF a.invulnerable
        THEN w
        ELSE [w EXCEPT !.aircraft.health = Max(0, a.health - amount),
                       !.aircraft.invulnerable = TRUE,
                       !.aircraft.invulnerable_timer = HIT_INVULNERABLE_MS,
                       !.aircraft.timer_residue = FALSE,
                       !.hist.hit_clock = 0])

\* Aircraft.take_damage: the value returned ("True if dead")
Aircraft_take_damage_ret(w, amount) ==
    IF w.aircraft.invulnerable THEN FALSE
    ELSE Max(0, w.aircraft.health - amount) <= 0

\* Aircraft.take_shield_hit (energy_cost in units)
Aircraft_take_shield_hit(w, energy_cost) ==
    Hit(w, "take_shield_hit",
        IF ~w.aircraft.shield_active
        THEN w
        ELSE LET e == Max(0, w.weapon_system.shield_energy - energy_cost * MILLI)
             IN  IF e <= 0
                 THEN [w EXCEPT !.weapon_system.shield_energy = e,
                                !.aircraft.shield_active = FALSE,
                                !.aircraft.shield_duration = 0]
                 ELSE [w EXCEPT !.weapon_system.shield_energy = e])

\* Aircraft.heal
Aircraft_heal(w, amount) ==
    [w EXCEPT !.aircraft.health = Min(w.aircraft.max_health, @ + amount)]

\* Aircraft.add_fuel (amount in units)
Aircraft_add_fuel(w, amount) ==
    [w EXCEPT !.aircraft.fuel = Min(w.aircraft.max_fuel, @ + amount * FUEL_SCALE)]

\* Aircraft.activate_shield (duration in ms)
Aircraft_activate_shield(w, duration) ==
    [w EXCEPT !.aircraft.shield_active = TRUE,
              !.aircraft.shield_duration = duration]

\* Aircraft.add_score
Aircraft_add_score(w, points) ==
    [w EXCEPT !.aircraft.score = @ + points]

\* Variant of Aircraft.lose_life that resets the aircraft when the last
\* life is lost, too
Aircraft_lose_life_always_resets(w) ==
    Called([w EXCEPT !.aircraft.lives = @ - 1,
                     !.aircraft.health = w.aircraft.max_health,
                     !.aircraft.x = 100000,
                     !.aircraft.y = GROUND_LEVEL,
                     !.aircraft.vx = 0,
                     !.aircraft.vy = 0,
                     !.aircraft.angle = 0,
                     !.aircraft.on_ground = TRUE,
                     !.aircraft.has_taken_off = FALSE,
                     !.aircraft.gear_down = TRUE,
                     !.aircraft.thrust = 0,
                     !.aircraft.invulnerable = TRUE,
                     !.aircraft.invulnerable_timer = RESPAWN_INVULNERABLE_MS,
                     !.aircraft.timer_residue = FALSE,
                     !.hist.hit_clock = 0 - 1],
           "respawn")

\* Aircraft.lose_life
Aircraft_lose_life(w) ==
    LET n == w.aircraft.lives - 1 IN
    IF n > 0
    THEN Called([w EXCEPT !.aircraft.lives = n,
                     !.aircraft.health = w.aircraft.max_health,
                     !.aircraft.x = 100000,
                     !.aircraft.y = GROUND_LEVEL,
                     !.aircraft.vx = 0,
                     !.aircraft.vy = 0,
                     !.aircraft.angle = 0,
                     !.aircraft.on_ground = TRUE,
                     !.aircraft.has_taken_off = FALSE,
                     !.aircraft.gear_down = TRUE,
                     !.aircraft.thrust = 0,
                     !.aircraft.invulnerable = TRUE,
                     !.aircraft.invulnerable_timer = RESPAWN_INVULNERABLE_MS,
                     !.aircraft.timer_residue = FALSE,
                     !.hist.hit_clock = 0 - 1],
                "respawn")
    ELSE [w EXCEPT !.aircraft.lives = n]

\* WeaponSystem.upgrade_primary
WeaponSystem_upgrade_primary(w) ==
    IF w.weapon_system.primary_level < 3
    THEN [w EXCEPT !.weapon_system.primary_level = @ + 1]
    ELSE w

\* Variant of add_missiles without the cap
WeaponSystem_add_missiles_uncapped(w, count) ==
    [w EXCEPT !.weapon_system.missile_count = @ + count]

\* WeaponSystem.add_missiles
WeaponSystem_add_missiles(w, count) ==
    [w EXCEPT !.weapon_system.missile_count =
                  Min(w.weapon_system.max_missiles, @ + count)]

\* PowerUp.apply_effect; points is the draw of random.choice([500, 1000, 2000])
PowerUp_apply_effect(w, type, points) ==
    CASE type = "health" -> Aircraft_heal(w, 30)
      [] type = "weapon_upgrade" ->
            IF w.weapon_system.primary_level < 3
            THEN WeaponSystem_upgrade_primary(w)
            ELSE Aircraft_add_score(w, 500)
      [] type = "missiles" -> WeaponSystem_add_missiles(w, 3)
      [] type = "shield" ->
            Aircraft_activate_shield(
                [w EXCEPT !.weapon_system.shield_energy =
                              w.weapon_system.max_shield_energy], 5000)
      [] type = "score" -> Aircraft_add_score(w, points)
      [] OTHER -> w

PowerUpTypes == {"health", "weapon_upgrade", "missiles", "shield", "score"}
ScoreChoices == {500, 1000, 2000}

----------------------------------------------------------------------------
(* sky_fury.py: the controls.  keys is the set of keys held down. *)

\* SkyFury._handle_takeoff_controls
SkyFury_handle_takeoff_controls(w, keys, dt) ==
    LET a  == w.aircraft
        t1 == IF "UP" \in keys THEN Min(100, a.thrust + 5) ELSE Max(0, a.thrust - 1)
        progress == IF a.x > 180000 THEN Min(1000, (a.x - 180000) \div 120) ELSE 0
        target   == 18 * progress
        g1 == IF "UP" \in keys
              THEN a.angle + ((target - a.angle) * dt) \div 400
              ELSE a.angle
        t2 == IF "DOWN" \in keys THEN Max(0, t1 - 5) ELSE t1
        g2 == IF "DOWN" \in keys THEN Max(0, g1 - 20 * dt) ELSE g1
    IN  [w EXCEPT !.aircraft.thrust = t2,
                  !.aircraft.angle = g2,
                  !.aircraft.brakes_active = ("DOWN" \in keys)]

----------------------------------------------------------------------------
(* The world of the current state, and the step that installs a world. *)

World ==
    [ aircraft |-> aircraft, weapon_system |-> weapon_system,
      enemy_manager |-> enemy_manager, level_manager |-> level_manager,
      powerup_manager |-> powerup_manager, game |-> game, hist |-> hist,
      calls |-> {}, touch |-> <<>>, hits |-> <<>>, messages |-> <<>> ]

\* the number of objects in the collections (bullets, missiles, lasers,
\* enemies, boss, enemy projectiles, power-ups) whose active flag is false
Inactive(ws, em, pm) ==
    Cardinality({i \in DOMAIN ws.bullets : ~ws.bullets[i].active})
    + Cardinality({i \in DOMAIN ws.missiles : ~ws.missiles[i].active})
    + Cardinality({i \in DOMAIN ws.lasers : ~ws.lasers[i].active})
    + Cardinality({i \in DOMAIN em.enemies : ~em.enemies[i].active})
    + Cardinality({i \in DOMAIN em.boss : ~em.boss[i].active})
    + Cardinality({i \in DOMAIN em.projectiles : ~em.projectiles[i]})
    + Cardinality({i \in DOMAIN pm.powerups : ~pm.powerups[i].active})

\* What the aircraft was when the step began
Pre ==
    [ on_ground |-> aircraft.on_ground, health |-> aircraft.health,
      invulnerable |-> aircraft.invulnerable,
      shield_active |-> aircraft.shield_active,
      hit_clock |-> hist.hit_clock,
      has_taken_off |-> aircraft.has_taken_off,
      state |-> game.state,
      queued |-> Len(enemy_manager.spawn_queue),
      beams |-> Len(weapon_system.lasers),
      enemies |-> Len(enemy_manager.enemies),
      inactive |-> Inactive(weapon_system, enemy_manager, powerup_manager),
      shield_energy |-> weapon_system.shield_energy,
      score |-> aircraft.score,
      lives |-> aircraft.lives, fuel |-> aircraft.fuel,
      thrust |-> aircraft.thrust,
      enemy_health |-> [k \in DOMAIN enemy_manager.enemies |->
                           enemy_manager.enemies[k].health],
      boss |-> enemy_manager.boss,
      powerups |-> powerup_manager.powerups ]

Event(op, arg, ret, w) ==
    [op |-> op, arg |-> arg, ret |-> ret, calls |-> w.calls, touch |-> w.touch,
     hits |-> w.hits, pre |-> Pre]

Commit(w, e) ==
    /\ aircraft' = w.aircraft
    /\ weapon_system' = w.weapon_system
    /\ enemy_manager' = w.enemy_manager
    /\ level_manager' = w.level_manager
    /\ powerup_manager' = w.powerup_manager
    /\ game' = w.game
    /\ hist' = w.hist
    /\ ev' = e

NoHistory == [boss_spawned |-> 0, boss_destroyed |-> 0, hit_clock |-> 0 - 1]

NoPlan == [play |-> "none", free |-> 0, last |-> 0]

NoEvent ==
    [op |-> "init", arg |-> 0, ret |-> FALSE, calls |-> {}, touch |-> <<>>,
     hits |-> <<>>,
     pre |-> [on_ground |-> TRUE, health |-> 100, invulnerable |-> FALSE,
              shield_active |-> FALSE, hit_clock |-> 0 - 1,
              has_taken_off |-> FALSE, state |-> "menu", queued |-> 0,
              beams |-> 0,
              enemies |-> 0, inactive |-> 0,
              shield_energy |-> 0, score |-> 0,
              lives |-> 3, fuel |-> 0, thrust |-> 0,
              enemy_health |-> <<>>, boss |-> <<>>, powerups |-> <<>>]]

----------------------------------------------------------------------------
(* The objects start_game creates besides the aircraft and its weapons. *)

\* EnemyManager.__init__; boss is <<>> for None, else <<the boss>>.  The
\* attribute boss_defeated is not set by __init__: has_boss_defeated says
\* whether the object has it.
NewEnemyManager ==
    [ enemies |-> <<>>, boss |-> <<>>, projectiles |-> <<>>,
      spawn_timer |-> 0, spawn_delay |-> 2000, spawn_queue |-> <<>>,
      has_boss_defeated |-> FALSE, boss_defeated |-> FALSE ]

\* LevelManager.__init__ and load_level
NewLevelManager(level) ==
    [ current_level |-> level, max_levels |-> 3, current_wave |-> 0,
      wave_complete |-> FALSE, level_complete |-> FALSE,
      waves_started |-> FALSE ]

\* PowerUpManager.__init__
NewPowerUpManager == [ powerups |-> <<>> ]

\* SkyFury.__init__ and start_game: the fields update reads and writes
NewGame(level) ==
    [ state |-> "takeoff", current_level |-> level, transition_timer |-> 0,
      fade_alpha |-> 0, fade_direction |-> 0, demo_boss_level |-> 0 ]

----------------------------------------------------------------------------
(***************************************************************************)
(* Levels, enemies and bosses.  Of an enemy's position the model keeps x   *)
(* (its flight to the left decides when it leaves the screen) and the      *)
(* height it was spawned at; of a boss's position it keeps x (the entry    *)
(* glide).  Whether two rectangles overlap, whether a beam covers a        *)
(* position and whether a shot has left the screen are inputs of the tick. *)
(***************************************************************************)

E(type, y) == [type |-> type, y |-> y]

\* LevelManager._level_1_data: the boss and the waves
Level_1_data ==
    [ boss |-> "hive_queen", waves |-> <<
      [ delay |-> 1500, enemies |->
          << E("drone", 150), E("drone", 250), E("drone", 350),
             E("drone", 450) >> ],
      [ delay |-> 1200, enemies |->
          << E("drone", 100), E("drone", 200), E("drone", 300),
             E("drone", 400), E("drone", 500) >> ],
      [ delay |-> 1500, enemies |->
          << E("drone", 150), E("bomber", 250), E("drone", 350),
             E("bomber", 450) >> ],
      [ delay |-> 1000, enemies |->
          << E("drone", 100), E("drone", 200), E("bomber", 300),
             E("drone", 400), E("bomber", 500), E("drone", 250) >> ],
      [ delay |-> 1200, enemies |->
          << E("bomber", 150), E("drone", 200), E("drone", 300),
             E("bomber", 400), E("drone", 450) >> ] >> ]

\* LevelManager._level_2_data: the boss and the waves
Level_2_data ==
    [ boss |-> "aegis_defender", waves |-> <<
      [ delay |-> 1200, enemies |->
          << E("drone", 120), E("bomber", 220), E("gunship", 300),
             E("bomber", 380), E("drone", 480) >> ],
      [ delay |-> 1500, enemies |->
          << E("gunship", 150), E("drone", 250), E("gunship", 350),
             E("drone", 450) >> ],
      [ delay |-> 1300, enemies |->
          << E("elite", 200), E("bomber", 300), E("elite", 400),
             E("gunship", 250), E("gunship", 350) >> ],
      [ delay |-> 1000, enemies |->
          << E("drone", 100), E("elite", 180), E("bomber", 260),
             E("gunship", 340), E("elite", 420), E("drone", 500) >> ],
      [ delay |-> 1100, enemies |->
          << E("kamikaze", 150), E("kamikaze", 250), E("elite", 300),
             E("kamikaze", 350), E("kamikaze", 450) >> ],
      [ delay |-> 1200, enemies |->
          << E("elite", 120), E("gunship", 200), E("bomber", 280),
             E("gunship", 360), E("elite", 440) >> ] >> ]

\* LevelManager._level_3_data: the boss and the waves
Level_3_data ==
    [ boss |-> "final_destroyer", waves |-> <<
      [ delay |-> 900, enemies |->
          << E("kamikaze", 100), E("elite", 180), E("gunship", 260),
             E("kamikaze", 340), E("elite", 420), E("kamikaze", 500) >> ],
      [ delay |-> 1300, enemies |->
          << E("elite", 150), E("elite", 250), E("elite", 350),
             E("elite", 450) >> ],
      [ delay |-> 800, enemies |->
          << E("bomber", 120), E("gunship", 200), E("elite", 280),
             E("gunship", 360), E("bomber", 440), E("kamikaze", 300) >> ],
      [ delay |-> 700, enemies |->
          << E("kamikaze", 150), E("kamikaze", 200), E("elite", 250),
             E("kamikaze", 300), E("kamikaze", 350), E("elite", 400),
             E("kamikaze", 450) >> ],
      [ delay |-> 900, enemies |->
          << E("elite", 100), E("gunship", 170), E("bomber", 240),
             E("kamikaze", 280), E("elite", 340), E("gunship", 410),
             E("kamikaze", 480) >> ],
      [ delay |-> 1000, enemies |->
          << E("elite", 150), E("elite", 250), E("gunship", 200),
             E("gunship", 350), E("bomber", 300), E("kamikaze", 400) >> ],
      [ delay |-> 1000, enemies |->
          << E("elite", 180), E("elite", 280), E("elite", 380),
             E("kamikaze", 230), E("kamikaze", 330) >> ] >> ]

\* LevelManager.get_level_data
LevelManager_get_level_data(level_num) ==
    CASE level_num = 1 -> Level_1_data
      [] level_num = 2 -> Level_2_data
      [] level_num = 3 -> Level_3_data
      [] OTHER -> Level_1_data

\* Enemy._get_stats: health, speed (1/1000 px per frame), damage, score
Enemy_get_stats(type) ==
    CASE type = "drone"    -> [health |-> 30,  speed |-> 2000, damage |-> 10, score_value |-> 100]
      [] type = "bomber"   -> [health |-> 60,  speed |-> 1500, damage |-> 15, score_value |-> 200]
      [] type = "gunship"  -> [health |-> 100, speed |-> 1800, damage |-> 20, score_value |-> 300]
      [] type = "elite"    -> [health |-> 150, speed |-> 2200, damage |-> 25, score_value |-> 400]
      [] type = "kamikaze" -> [health |-> 20,  speed |-> 4000, damage |-> 40, score_value |-> 150]
      [] OTHER             -> [health |-> 30,  speed |-> 2000, damage |-> 10, score_value |-> 100]

\* Enemy.__init__ at (850, y); wave is the wave whose queue it came from
NewEnemy(type, y, wave) ==
    LET st == Enemy_get_stats(type) IN
    [ type |-> type, x |-> 850 * MILLI, y |-> y, active |-> TRUE,
      health |-> st.health * HP, max_health |-> st.health * HP,
      speed |-> st.speed, score_value |-> st.score_value,
      attack_cooldown |-> 0, wave |-> wave ]

\* Variant of Enemy.take_damage that spares an enemy left with health 0
Enemy_take_damage_below_zero(e, amount) ==
    LET h == e.health - amount IN
    [e EXCEPT !.health = h, !.active = IF h < 0 THEN FALSE ELSE @]

\* Enemy.take_damage (amount in 1/100000): the enemy after the call
Enemy_take_damage(e, amount) ==
    LET h == e.health - amount IN
    [e EXCEPT !.health = h, !.active = IF h <= 0 THEN FALSE ELSE @]

\* Enemy.take_damage: the value returned ("destroyed")
Enemy_take_damage_ret(e, amount) == e.health - amount <= 0

\* Enemy.update of one enemy: the enemy after the call.  px is the player's
\* x; toward (0..1000) is the share of a kamikaze's speed that goes to the
\* left, which depends on the heights.
Enemy_update(e, dt, px, shoots, toward) ==
    IF ~e.active THEN e
    ELSE
    LET cd   == Max(0, e.attack_cooldown - dt)
        step == (e.speed * dt * 60) \div MS
        x1   == IF e.type = "kamikaze"
                THEN IF px < e.x THEN e.x - (step * toward) \div 1000
                     ELSE e.x + (step * toward) \div 1000
                ELSE e.x - step
        lo   == IF e.type \in {"gunship", "elite"} THEN 100 * MILLI ELSE 50 * MILLI
        hi   == IF e.type \in {"gunship", "elite"} THEN 700 * MILLI ELSE 750 * MILLI
        can  == e.type # "kamikaze" /\ cd <= 0 /\ lo < x1 /\ x1 < hi
        fires == /\ can
                 /\ IF e.type = "bomber" THEN Abs(x1 - px) < 100 * MILLI
                    ELSE shoots
        cd1  == IF ~fires THEN cd
                ELSE CASE e.type = "drone"   -> 2000
                       [] e.type = "bomber"  -> 2500
                       [] e.type = "gunship" -> 1800
                       [] OTHER              -> 1200
    IN  [e EXCEPT !.x = x1, !.attack_cooldown = cd1,
                  !.active = ~(x1 < 0 - 100 * MILLI)]

\* Enemy.update: the number of projectiles the call returns
Enemy_update_shots(e, dt, px, shoots, toward) ==
    IF ~e.active THEN 0
    ELSE LET e1 == Enemy_update(e, dt, px, shoots, toward) IN
         IF e1.attack_cooldown > Max(0, e.attack_cooldown - dt)
         THEN IF e.type = "elite" THEN 3 ELSE 1
         ELSE 0

\* Boss.__init__ at (900, 300); x and y in 1/1000 px, the timers in ms; by
\* says who spawned the boss: the level, or the TAB key of the demo
NewBoss(boss_type) ==
    LET mh == CASE boss_type = "hive_queen"     -> 800
                [] boss_type = "aegis_defender" -> 1200
                [] OTHER                        -> 1800
        sv == CASE boss_type = "hive_queen"     -> 5000
                [] boss_type = "aegis_defender" -> 8000
                [] OTHER                        -> 15000
    IN  [ type |-> boss_type, x |-> 900 * MILLI, y |-> 300 * MILLI,
          active |-> TRUE, phase |-> 1,
          health |-> mh * HP, max_health |-> mh * HP, score_value |-> sv,
          move_timer |-> 0, attack_timer |-> 0, phase_transition_timer |-> 0,
          entered |-> FALSE, entry_target_x |-> 650 * MILLI, by |-> "level" ]

\* Variant of Boss.take_damage that ignores the phase transition
Boss_take_damage_in_transition(b, amount) ==
    LET h == b.health - amount IN
    [b EXCEPT !.health = h, !.active = IF h <= 0 THEN FALSE ELSE @]

\* Boss.take_damage (amount in 1/100000): the boss after the call
Boss_take_damage(b, amount) ==
    IF b.phase_transition_timer > 0 THEN b
    ELSE LET h == b.health - amount IN
         [b EXCEPT !.health = h, !.active = IF h <= 0 THEN FALSE ELSE @]

\* Boss.take_damage: the value returned ("destroyed")
Boss_take_damage_ret(b, amount) ==
    ~(b.phase_transition_timer > 0) /\ b.health - amount <= 0

\* Variant of the phase test that goes by the health alone
Boss_check_phase_by_health(b) ==
    IF b.health <= (b.max_health \div 100) * 33 /\ b.phase < 3
    THEN [b EXCEPT !.phase = 3, !.phase_transition_timer = 2000]
    ELSE IF b.health <= (b.max_health \div 100) * 66 /\ b.phase = 1
         THEN [b EXCEPT !.phase = 2, !.phase_transition_timer = 2000]
         ELSE b

\* Boss.update, "Check phase transitions": health / max_health <= 0.66, 0.33
Boss_check_phase(b) ==
    IF b.health <= (b.max_health \div 100) * 66 /\ b.phase = 1
    THEN [b EXCEPT !.phase = 2, !.phase_transition_timer = 2000]
    ELSE IF b.health <= (b.max_health \div 100) * 33 /\ b.phase = 2
         THEN [b EXCEPT !.phase = 3, !.phase_transition_timer = 2000]
         ELSE b

\* Boss._hive_queen_attack, _aegis_defender_attack, _final_destroyer_attack:
\* the attack_timer an attack needs, and the projectiles it makes
Boss_attack_period(b) ==
    CASE b.type = "hive_queen" ->
           (CASE b.phase = 1 -> 2000 [] b.phase = 2 -> 1500 [] OTHER -> 100)
      [] b.type = "aegis_defender" ->
           (CASE b.phase = 1 -> 500 [] b.phase = 2 -> 400 [] OTHER -> 150)
      [] OTHER ->
           (CASE b.phase = 1 -> 1500 [] b.phase = 2 -> 1200 [] OTHER -> 80)

Boss_attack_shots(b, extra) ==
    CASE b.type = "hive_queen" ->
           (CASE b.phase = 1 -> 5 [] b.phase = 2 -> 8 [] OTHER -> 1)
      [] b.type = "aegis_defender" ->
           (CASE b.phase = 1 -> 1 [] b.phase = 2 -> 3 [] OTHER -> 3)
      [] OTHER ->
           (CASE b.phase = 1 -> 12 [] b.phase = 2 -> 16
              [] OTHER -> IF extra THEN 2 ELSE 1)

\* sin of move_timer * frequency (0.5 rad per second) for move_timer in ms,
\* in 1/1000: the angle in 1/1000 degree, brought into -90 .. 90 degrees
SinOfMoveTimer(t) ==
    LET a == ((t * 28648) \div 1000) % 360000
        r == IF a > 180000 THEN a - 360000 ELSE a
        f == IF r > 90000 THEN 180000 - r
             ELSE IF r < 0 - 90000 THEN 0 - 180000 - r ELSE r
    IN  SinMilli(f)

\* Boss._update_movement: the vertical sine wave around y = 300, kept on the
\* screen
Boss_update_movement(b) ==
    [b EXCEPT !.y = Max(100 * MILLI,
                        Min(500 * MILLI,
                            300 * MILLI + SinOfMoveTimer(b.move_timer) * 100))]

\* Boss.update: the boss after the call
Boss_update(b, dt) ==
    IF ~b.active THEN b
    ELSE
    LET b1 == [b EXCEPT !.move_timer = @ + dt, !.attack_timer = @ + dt] IN
    IF ~b1.entered
    THEN IF b1.x > b1.entry_target_x
         THEN [b1 EXCEPT !.x = @ - 3 * MILLI]
         ELSE [b1 EXCEPT !.entered = TRUE]
    ELSE LET b2 == Boss_check_phase(b1) IN
         IF b2.phase_transition_timer > 0
         THEN [b2 EXCEPT !.phase_transition_timer = @ - dt]
         ELSE Boss_update_movement(
                  IF b2.attack_timer >= Boss_attack_period(b2)
                  THEN [b2 EXCEPT !.attack_timer = 0]
                  ELSE b2)

\* Variant of the boss's fire that does not wait for the entry
Boss_update_shots_entering(b, dt, extra) ==
    IF ~b.active THEN 0
    ELSE LET b2 == Boss_check_phase([b EXCEPT !.attack_timer = @ + dt]) IN
         IF b2.phase_transition_timer <= 0
            /\ b2.attack_timer >= Boss_attack_period(b2)
         THEN Boss_attack_shots(b2, extra)
         ELSE 0

\* Boss.update: the number of projectiles the call returns
Boss_update_shots(b, dt, extra) ==
    IF ~b.active \/ ~b.entered THEN 0
    ELSE LET b2 == Boss_check_phase([b EXCEPT !.attack_timer = @ + dt]) IN
         IF b2.phase_transition_timer <= 0
            /\ b2.attack_timer >= Boss_attack_period(b2)
         THEN Boss_attack_shots(b2, extra)
         ELSE 0

(***************************************************************************)
(* The inputs of one tick: the frame time dt (ms), the keys held, and the  *)
(* outcomes of what the model does not compute: the random draws and the   *)
(* geometric tests.                                                        *)
(*   shoots        the enemies (by index) whose random draw lets them fire *)
(*   toward        share (0..1000) of a kamikaze's speed that goes left    *)
(*   boss_extra    the final destroyer's random extra shot                 *)
(*   bullets_out, missiles_out, proj_out, powerups_out                     *)
(*                 how many of the oldest of each leave the screen         *)
(*   bullet_n, bullet_target    the first bullet_n active bullets overlap  *)
(*                 the target: an enemy's index, or 0 for the boss         *)
(*   missile_n, missile_target  the same for the missiles                  *)
(*   lock          the enemy (by index) that is nearest to a missile; 0,   *)
(*                 or an index past the last enemy: the boss if there is   *)
(*                 one, else the first enemy                               *)
(*   aim           the direction from a missile to its target, as atan2    *)
(*                 gives it (1/1000 degree, -180000 to 180000)             *)
(*   laser_enemies, laser_boss  the beams cover every enemy, the boss      *)
(*   proj_hit      how many of the first active projectiles overlap the    *)
(*                 aircraft                                                *)
(*   ram, boss_ram the enemies (by index) and the boss overlap it          *)
(*   drop          the power-up a destroyed enemy leaves ("none": none)    *)
(*   boss_drop     the power-ups a destroyed boss leaves (3 to 5)          *)
(*   collect       the aircraft overlaps every power-up                    *)
(*   points        the draw of a score power-up                            *)
(***************************************************************************)
Quiet(dt, keys) ==
    [ dt |-> dt, keys |-> keys, shoots |-> {}, toward |-> 1000,
      boss_extra |-> FALSE,
      bullets_out |-> 0, missiles_out |-> 0, proj_out |-> 0, powerups_out |-> 0,
      bullet_n |-> 0, bullet_target |-> 0, missile_n |-> 0, missile_target |-> 0,
      lock |-> 0, aim |-> 0,
      laser_enemies |-> FALSE, laser_boss |-> FALSE,
      proj_hit |-> 0, ram |-> {}, boss_ram |-> FALSE,
      drop |-> "none", boss_drop |-> <<"health", "missiles", "shield">>,
      collect |-> FALSE, skip |-> 0, points |-> 500 ]

\* the sequence s without its first n elements
Drop(s, n) == IF n >= Len(s) THEN <<>> ELSE SubSeq(s, n + 1, Len(s))

\* n copies of v
Copies(n, v) == [i \in 1..n |-> v]

RECURSIVE SumTo(_, _)
SumTo(f, n) == IF n = 0 THEN 0 ELSE f[n] + SumTo(f, n - 1)

\* HomingMissile.target: None, the k-th of EnemyManager.enemies, the boss of
\* EnemyManager.boss, or an object that has left both while it was active
\* (nothing updates it or hits it any more, so it stays active)
NoTarget == [kind |-> "none", k |-> 0]

EnemyTarget(k) == [kind |-> "enemy", k |-> k]

BossTarget == [kind |-> "boss", k |-> 0]

LostTarget == [kind |-> "lost", k |-> 0]

\* HomingMissile.__init__: angle in 1/1000 degree; flown is the length of
\* the path flown (1/1000 px); angle0 and flown0 record angle and flown as
\* they were when the tick began, and nearest records the nearest active
\* enemy among those the last update was given
NewMissile ==
    [ active |-> TRUE, lifetime |-> 6000, angle |-> 0, flown |-> 0,
      target |-> NoTarget, angle0 |-> 0, flown0 |-> 0, nearest |-> NoTarget ]

\* HomingMissile.update, "self.target.active" for the target t
TargetActive(em, t) ==
    CASE t.kind = "enemy" -> t.k <= Len(em.enemies) /\ em.enemies[t.k].active
      [] t.kind = "boss"  -> em.boss # <<>> /\ em.boss[1].active
      [] t.kind = "lost"  -> TRUE
      [] OTHER            -> FALSE

\* HomingMissile.update, "Normalize to -180 to 180"
RECURSIVE Normalize(_)
Normalize(angle_diff) ==
    IF angle_diff > 180000 THEN Normalize(angle_diff - 360000)
    ELSE IF angle_diff < 0 - 180000 THEN Normalize(angle_diff + 360000)
    ELSE angle_diff

\* HomingMissile.update, "Apply turn rate" (turn_rate = 3.0 degrees)
HomingMissile_turn(angle, target_angle) ==
    LET angle_diff == Normalize(target_angle - angle) IN
    IF Abs(angle_diff) < 3000 THEN target_angle
    ELSE IF angle_diff > 0 THEN angle + 3000 ELSE angle - 3000

\* HomingMissile.update, "Update position": velocity * dt * 60 with speed 12
\* is 12 * 60 px per second, in 1/1000 px for dt in ms
MissileStep(dt) == 12 * dt * 60

\* HomingMissile._find_nearest_enemy among n active enemies and the boss
HomingMissile_find_nearest_enemy(n, boss, lock) ==
    IF lock >= 1 /\ lock <= n THEN EnemyTarget(lock)
    ELSE IF boss # <<>> /\ boss[1].active THEN BossTarget
    ELSE IF n >= 1 THEN EnemyTarget(1)
    ELSE NoTarget

\* the missiles once every enemy and the boss leave the collections
\* (spawn_boss, and the TAB key before it)
Orphaned(w) ==
    LET ms == w.weapon_system.missiles IN
    [w EXCEPT !.weapon_system.missiles =
        [i \in 1..Len(ms) |->
            [ms[i] EXCEPT !.target =
                IF TargetActive(w.enemy_manager, ms[i].target)
                THEN LostTarget ELSE NoTarget]]]

\* EnemyManager.set_spawn_queue; the entries carry the wave they belong to
EnemyManager_set_spawn_queue(w, queue) ==
    Called([w EXCEPT !.enemy_manager.spawn_queue = queue,
                     !.enemy_manager.spawn_timer = 0], "set_spawn_queue")

\* EnemyManager.spawn_boss
EnemyManager_spawn_boss(w, boss_type) ==
    Called([Orphaned(w) EXCEPT !.enemy_manager.boss = <<NewBoss(boss_type)>>,
                               !.enemy_manager.enemies = <<>>], "spawn_boss")

\* Variant of is_wave_complete that looks at the spawn queue only
EnemyManager_is_wave_complete_queue_only(em) ==
    Len(em.spawn_queue) = 0 /\ em.boss = <<>>

\* EnemyManager.is_wave_complete
EnemyManager_is_wave_complete(em) ==
    Len(em.enemies) = 0 /\ Len(em.spawn_queue) = 0 /\ em.boss = <<>>

\* HomingMissile.update(dt, enemies): alive says that the target is active,
\* nearest is what _find_nearest_enemy(enemies) returns, target_angle the
\* direction to the target (the target is never exactly where the missile
\* is), and out says that the missile left the screen
HomingMissile_update(m, dt, out, alive, nearest, target_angle) ==
    LET t  == m.lifetime - dt
        tg == IF m.target = NoTarget \/ ~alive THEN nearest ELSE m.target
    IN  IF t <= 0 THEN [m EXCEPT !.lifetime = t, !.active = FALSE]
        ELSE [m EXCEPT !.lifetime = t,
                       !.target = tg,
                       !.nearest = nearest,
                       !.angle = IF tg = NoTarget THEN @
                                 ELSE HomingMissile_turn(@, target_angle),
                       !.flown = @ + MissileStep(dt),
                       !.active = IF out THEN FALSE ELSE @]

\* Variant of the spawning that takes the entry at the back of the queue
EnemyManager_spawn_from_back(w, dt) ==
    LET em == w.enemy_manager
        t  == em.spawn_timer + dt
    IN  IF Len(em.spawn_queue) > 0 /\ t >= em.spawn_delay
        THEN LET d == em.spawn_queue[Len(em.spawn_queue)] IN
             Called([w EXCEPT !.enemy_manager.spawn_timer = 0,
                              !.enemy_manager.spawn_queue =
                                  SubSeq(@, 1, Len(@) - 1),
                              !.enemy_manager.enemies =
                                  Append(@, NewEnemy(d.type, d.y, d.wave))],
                    "spawn")
        ELSE [w EXCEPT !.enemy_manager.spawn_timer = t]

\* EnemyManager.update, "Spawn from queue"
EnemyManager_spawn(w, dt) ==
    LET em == w.enemy_manager
        t  == em.spawn_timer + dt
    IN  IF Len(em.spawn_queue) > 0 /\ t >= em.spawn_delay
        THEN LET d == Head(em.spawn_queue) IN
             Called([w EXCEPT !.enemy_manager.spawn_timer = 0,
                              !.enemy_manager.spawn_queue = Tail(@),
                              !.enemy_manager.enemies =
                                  Append(@, NewEnemy(d.type, d.y, d.wave))],
                    "spawn")
        ELSE [w EXCEPT !.enemy_manager.spawn_timer = t]

\* EnemyManager.update, "Update enemies": the enemies after their update
EnemyManager_update_enemies(w, in) ==
    LET em == w.enemy_manager IN
    [i \in 1..Len(em.enemies) |->
        Enemy_update(em.enemies[i], in.dt, w.aircraft.x, i \in in.shoots,
                     in.toward)]

\* EnemyManager.update, "Collect enemy projectiles": how many each enemy fires
EnemyManager_update_shots(w, in) ==
    LET em == w.enemy_manager IN
    [i \in 1..Len(em.enemies) |->
        Enemy_update_shots(em.enemies[i], in.dt, w.aircraft.x, i \in in.shoots,
                           in.toward)]

\* Variant of "Update boss" that keeps a boss that is no longer active
EnemyManager_update_boss_kept(boss, dt) ==
    IF boss = <<>> THEN <<>> ELSE <<Boss_update(boss[1], dt)>>

\* EnemyManager.update, "Update boss": the boss after its update, removed
\* when it is no longer active
EnemyManager_update_boss(boss, dt) ==
    IF boss = <<>> THEN <<>>
    ELSE IF Boss_update(boss[1], dt).active THEN <<Boss_update(boss[1], dt)>>
         ELSE <<>>

\* the place of the k-th enemy once the inactive ones before it are removed
Rank(es, k) == Cardinality({i \in 1..k : es[i].active})

\* a missile's target once "Update enemies" and "Update boss" have removed
\* what is no longer active: es are the enemies after their update, boss is
\* the slot after it
Retarget(t, es, boss) ==
    CASE t.kind = "enemy" -> IF t.k <= Len(es) /\ es[t.k].active
                             THEN EnemyTarget(Rank(es, t.k)) ELSE NoTarget
      [] t.kind = "boss"  -> IF boss # <<>> THEN t ELSE NoTarget
      [] OTHER            -> t

\* EnemyManager.update, "Update homing missiles' targets": the second update
\* of the missiles in a tick, with the enemies and the boss to home on
EnemyManager_update_missiles(ms, es, boss, in) ==
    [i \in 1..Len(ms) |->
        LET m == [ms[i] EXCEPT !.target = Retarget(@, es, boss)] IN
        IF m.active
        THEN HomingMissile_update(
                 m, in.dt, FALSE, TRUE,
                 HomingMissile_find_nearest_enemy(
                     Rank(es, Len(es)), boss, in.lock),
                 in.aim)
        ELSE m]

\* EnemyManager.update, "Update projectiles": fired adds the new ones, the
\* first out of them leave the screen
EnemyManager_update_projectiles(ps, fired, out) ==
    SelectSeq(Drop(ps \o Copies(fired, TRUE), out), LAMBDA p : p)

\* EnemyManager.update after "Spawn from queue"
EnemyManager_update_all(w, sh, in) ==
    [w EXCEPT !.enemy_manager.enemies =
                  SelectSeq(EnemyManager_update_enemies(w, in),
                            LAMBDA e : e.active),
              !.enemy_manager.boss = EnemyManager_update_boss(@, in.dt),
              !.weapon_system.missiles =
                  EnemyManager_update_missiles(
                      @, EnemyManager_update_enemies(w, in),
                      EnemyManager_update_boss(w.enemy_manager.boss, in.dt), in),
              !.enemy_manager.projectiles =
                  EnemyManager_update_projectiles(
                      @,
                      SumTo(sh, Len(sh))
                          + (IF w.enemy_manager.boss = <<>> THEN 0
                             ELSE Boss_update_shots(w.enemy_manager.boss[1],
                                                    in.dt, in.boss_extra)),
                      in.proj_out)]

\* EnemyManager.update, with the enemies that spawn has left
EnemyManager_update_spawned(w, in) ==
    EnemyManager_update_all(w, EnemyManager_update_shots(w, in), in)

\* EnemyManager.update
EnemyManager_update(w, in) ==
    EnemyManager_update_spawned(EnemyManager_spawn(w, in.dt), in)

\* LevelManager.update, the wave's queue as set_spawn_queue receives it
WaveQueue(level_data, n) ==
    LET es == level_data.waves[n + 1].enemies IN
    [i \in 1..Len(es) |-> [type |-> es[i].type, y |-> es[i].y, wave |-> n]]

\* LevelManager.update, "Start first wave immediately after takeoff" and
\* "Spawn next wave"
LevelManager_start_wave(w, level_data) ==
    LET n == w.level_manager.current_wave IN
    IF n < Len(level_data.waves)
    THEN LET w1 == EnemyManager_set_spawn_queue(w, WaveQueue(level_data, n))
         IN  [w1 EXCEPT !.enemy_manager.spawn_delay = level_data.waves[n + 1].delay]
    ELSE w

\* Variant of the boss stage that begins when the last wave is started
LevelManager_update_waves_skip_last(w, level_data) ==
    LET em == w.enemy_manager IN
    IF w.level_manager.current_wave >= Len(level_data.waves) - 1
    THEN IF em.boss = <<>> /\ ~em.has_boss_defeated
         THEN [EnemyManager_spawn_boss(w, level_data.boss)
                  EXCEPT !.hist.boss_spawned = @ + 1]
         ELSE IF em.boss = <<>> /\ em.has_boss_defeated /\ em.boss_defeated
              THEN [w EXCEPT !.level_manager.level_complete = TRUE]
              ELSE w
    ELSE IF EnemyManager_is_wave_complete(em)
         THEN LevelManager_start_wave(
                  [w EXCEPT !.level_manager.current_wave = @ + 1], level_data)
         ELSE w

\* LevelManager.update, "Check if current wave is complete" and "Spawn boss
\* after all waves"
LevelManager_update_waves(w, level_data) ==
    LET em == w.enemy_manager IN
    IF w.level_manager.current_wave >= Len(level_data.waves)
    THEN IF em.boss = <<>> /\ ~em.has_boss_defeated
         THEN [EnemyManager_spawn_boss(w, level_data.boss)
                  EXCEPT !.hist.boss_spawned = @ + 1]
         ELSE IF em.boss = <<>> /\ em.has_boss_defeated /\ em.boss_defeated
              THEN [w EXCEPT !.level_manager.level_complete = TRUE]
              ELSE w
    ELSE IF EnemyManager_is_wave_complete(em)
         THEN LevelManager_start_wave(
                  [w EXCEPT !.level_manager.current_wave = @ + 1], level_data)
         ELSE w

\* LevelManager.update once the aircraft has taken off
LevelManager_update_level(w, level_data) ==
    LevelManager_update_waves(
        IF ~w.level_manager.waves_started
        THEN LevelManager_start_wave(
                 [w EXCEPT !.level_manager.waves_started = TRUE], level_data)
        ELSE w,
        level_data)

\* LevelManager.update
LevelManager_update(w) ==
    IF ~w.aircraft.has_taken_off THEN w
    ELSE LevelManager_update_level(
             w, LevelManager_get_level_data(w.level_manager.current_level))

\* Variant of the cooldown's countdown without the floor at 0
Cooldown_unfloored(c, dt) == IF c > 0 THEN c - dt ELSE c

\* WeaponSystem.update, "Update cooldowns"
Cooldown(c, dt) == IF c > 0 THEN Max(0, c - dt) ELSE c

\* Variant of the beam's update that puts it out in its last 0.1 s
PlasmaLaser_update_short(l, dt) ==
    LET t == l.lifetime - dt IN
    [l EXCEPT !.lifetime = t, !.active = IF t <= 100 THEN FALSE ELSE @]

\* PlasmaLaser.update
PlasmaLaser_update(l, dt) ==
    LET t == l.lifetime - dt IN
    [l EXCEPT !.lifetime = t, !.active = IF t <= 0 THEN FALSE ELSE @]

\* WeaponSystem.update
WeaponSystem_update(w, in) ==
    LET dt == in.dt
        ws == w.weapon_system
        cd == [k \in DOMAIN ws.cooldowns |-> Cooldown(ws.cooldowns[k], dt)]
        c1 == IF ws.is_charging_laser /\ ws.laser_charge < ws.max_laser_charge
              THEN Min(ws.max_laser_charge, ws.laser_charge + 40 * dt)
              ELSE ws.laser_charge
        c2 == IF ~ws.is_charging_laser /\ c1 < ws.max_laser_charge
              THEN Min(ws.max_laser_charge, c1 + 5 * dt)
              ELSE c1
        se == IF ws.shield_energy < ws.max_shield_energy
              THEN Min(ws.max_shield_energy, ws.shield_energy + 3 * dt)
              ELSE ws.shield_energy
        bs == SelectSeq(Drop(ws.bullets, in.bullets_out), LAMBDA b : b.active)
        ms == [i \in 1..Len(ws.missiles) |->
                  HomingMissile_update(
                      ws.missiles[i], dt, i <= in.missiles_out,
                      TargetActive(w.enemy_manager, ws.missiles[i].target),
                      NoTarget, in.aim)]
        ls == [i \in 1..Len(ws.lasers) |-> PlasmaLaser_update(ws.lasers[i], dt)]
    IN  [w EXCEPT !.weapon_system.cooldowns = cd,
                  !.weapon_system.laser_charge = c2,
                  !.weapon_system.shield_energy = se,
                  !.weapon_system.bullets = bs,
                  !.weapon_system.missiles = SelectSeq(ms, LAMBDA m : m.active),
                  !.weapon_system.lasers = SelectSeq(ls, LAMBDA l : l.active)]

\* Bullet.__init__: damage 15, starting dy (1/1000 px) below the aircraft and
\* flying at direction_angle (degrees)
NewBullet(dy, direction_angle) ==
    [active |-> TRUE, angle |-> direction_angle, dy |-> dy]

\* WeaponSystem.fire_primary: the value returned
WeaponSystem_fire_primary_ret(w) == ~(w.weapon_system.cooldowns.primary > 0)

\* Variant of fire_primary whose triple shot lacks the bullet flying straight
WeaponSystem_fire_primary_spread_only(w) ==
    LET ws == w.weapon_system IN
    IF ws.cooldowns.primary > 0 THEN w
    ELSE LET new == CASE ws.primary_level = 1 -> <<NewBullet(0, 0)>>
                      [] ws.primary_level = 2 ->
                            <<NewBullet(0 - 10 * MILLI, 0), NewBullet(10 * MILLI, 0)>>
                      [] ws.primary_level >= 3 ->
                            <<NewBullet(0, 15), NewBullet(0, 0 - 15)>>
                      [] OTHER -> <<>>
         IN  Called([w EXCEPT !.weapon_system.cooldowns.primary = 150,
                              !.weapon_system.bullets = @ \o new], "fire_primary")

\* WeaponSystem.fire_primary: the world after the call
WeaponSystem_fire_primary(w) ==
    LET ws == w.weapon_system IN
    IF ws.cooldowns.primary > 0 THEN w
    ELSE LET new == CASE ws.primary_level = 1 -> <<NewBullet(0, 0)>>
                      [] ws.primary_level = 2 ->
                            <<NewBullet(0 - 10 * MILLI, 0), NewBullet(10 * MILLI, 0)>>
                      [] ws.primary_level >= 3 ->
                            <<NewBullet(0, 0), NewBullet(0, 15), NewBullet(0, 0 - 15)>>
                      [] OTHER -> <<>>
         IN  Called([w EXCEPT !.weapon_system.cooldowns.primary = 150,
                              !.weapon_system.bullets = @ \o new], "fire_primary")

\* WeaponSystem.fire_missile: the value returned
WeaponSystem_fire_missile_ret(w) ==
    ~(w.weapon_system.cooldowns.missile > 0 \/ w.weapon_system.missile_count <= 0)

\* WeaponSystem.fire_laser: the value returned
WeaponSystem_fire_laser_ret(w) ==
    ~(w.weapon_system.cooldowns.laser > 0
        \/ w.weapon_system.laser_charge < 30 * MILLI)

\* Variant of fire_laser that does not look at the charge
WeaponSystem_fire_laser_uncharged(w) ==
    LET ws == w.weapon_system IN
    IF ws.cooldowns.laser > 0 THEN w
    ELSE Called([w EXCEPT !.weapon_system.cooldowns.laser = 3000,
                          !.weapon_system.lasers =
                              Append(@, [active |-> TRUE,
                                         charge |-> Min(100 * MILLI, ws.laser_charge),
                                         lifetime |-> 600]),
                          !.weapon_system.laser_charge = 0,
                          !.weapon_system.is_charging_laser = FALSE],
                "fire_laser")

\* WeaponSystem.fire_missile
WeaponSystem_fire_missile(w) ==
    LET ws == w.weapon_system IN
    IF ws.cooldowns.missile > 0 \/ ws.missile_count <= 0 THEN w
    ELSE Called([w EXCEPT !.weapon_system.cooldowns.missile = 1500,
                          !.weapon_system.missile_count = @ - 1,
                          !.weapon_system.missiles =
                              Append(@, NewMissile)],
                "fire_missile")

\* WeaponSystem.fire_laser
WeaponSystem_fire_laser(w) ==
    LET ws == w.weapon_system IN
    IF ws.cooldowns.laser > 0 \/ ws.laser_charge < 30 * MILLI THEN w
    ELSE Called([w EXCEPT !.weapon_system.cooldowns.laser = 3000,
                          !.weapon_system.lasers =
                              Append(@, [active |-> TRUE,
                                         charge |-> Min(100 * MILLI, ws.laser_charge),
                                         lifetime |-> 600]),
                          !.weapon_system.laser_charge = 0,
                          !.weapon_system.is_charging_laser = FALSE],
                "fire_laser")

\* WeaponSystem.activate_shield: the value returned
WeaponSystem_activate_shield_ret(w) ==
    ~(w.weapon_system.cooldowns.shield > 0 \/ w.weapon_system.shield_energy < 40 * MILLI)

\* WeaponSystem.activate_shield: the world after the call
WeaponSystem_activate_shield(w) ==
    IF ~WeaponSystem_activate_shield_ret(w) THEN w
    ELSE Aircraft_activate_shield(
             Called([w EXCEPT !.weapon_system.cooldowns.shield = 8000,
                              !.weapon_system.shield_energy = @ - 40 * MILLI],
                    "activate_shield"),
             5000)

\* SkyFury._handle_weapon_controls
SkyFury_handle_weapon_controls(w, keys) ==
    LET w1 == IF "SPACE" \in keys THEN WeaponSystem_fire_primary(w) ELSE w
        w2 == IF "E" \in keys THEN WeaponSystem_fire_missile(w1) ELSE w1
        w3 == IF "R" \in keys
              THEN [w2 EXCEPT !.weapon_system.is_charging_laser = TRUE]
              ELSE IF w2.weapon_system.is_charging_laser
                   THEN [WeaponSystem_fire_laser(w2)
                            EXCEPT !.weapon_system.is_charging_laser = FALSE]
                   ELSE w2
    IN  IF "F" \in keys /\ WeaponSystem_activate_shield_ret(w3)
        THEN Aircraft_activate_shield(WeaponSystem_activate_shield(w3), 5000)
        ELSE w3

\* SkyFury._handle_combat_controls
SkyFury_handle_combat_controls(w, keys, dt) ==
    LET a == w.aircraft IN
    IF w.game.transition_timer > 0
    THEN [w EXCEPT !.game.transition_timer = @ - dt,
                   !.aircraft.angle = a.angle + ((0 - a.angle) * 2 * dt) \div MS,
                   !.aircraft.x = a.x + (((150 * MILLI - a.x) \div 2) * 3 * dt) \div MS,
                   !.aircraft.y = a.y + (((300 * MILLI - a.y) \div 2) * 3 * dt) \div MS]
    ELSE
    LET y1 == a.y - (IF "UP" \in keys THEN 5 * MILLI ELSE 0)
                  + (IF "DOWN" \in keys THEN 5 * MILLI ELSE 0)
        x1 == a.x - (IF "LEFT" \in keys THEN 5 * MILLI ELSE 0)
                  + (IF "RIGHT" \in keys THEN 5 * MILLI ELSE 0)
        g  == IF "UP" \in keys THEN Min(15 * MILLI, a.angle + 500)
              ELSE IF "DOWN" \in keys THEN Max(0 - 15 * MILLI, a.angle - 500)
              ELSE IF a.angle > 0 THEN Max(0, a.angle - 300)
              ELSE IF a.angle < 0 THEN Min(0, a.angle + 300)
              ELSE a.angle
    IN  [w EXCEPT !.aircraft.x = Max(50 * MILLI, Min(250 * MILLI, x1)),
                  !.aircraft.y = Max(20 * MILLI, Min(580 * MILLI, y1)),
                  !.aircraft.angle = g]

\* PowerUp.__init__
NewPowerUp(type) == [type |-> type, active |-> TRUE, lifetime |-> 8000]

\* PowerUpManager.maybe_spawn_from_enemy; drop is the outcome of the draws
PowerUpManager_maybe_spawn_from_enemy(w, drop) ==
    IF drop = "none" THEN w
    ELSE [w EXCEPT !.powerup_manager.powerups = Append(@, NewPowerUp(drop))]

\* PowerUpManager.maybe_spawn_from_boss; drops is the outcome of the draws
PowerUpManager_maybe_spawn_from_boss(w, drops) ==
    [w EXCEPT !.powerup_manager.powerups =
                  @ \o [i \in 1..Len(drops) |-> NewPowerUp(drops[i])]]

\* PowerUp.update, without the drift: out says it left the screen
PowerUp_update(p, dt, out) ==
    LET t == p.lifetime - dt IN
    IF t <= 0 THEN [p EXCEPT !.lifetime = t, !.active = FALSE]
    ELSE [p EXCEPT !.lifetime = t, !.active = IF out THEN FALSE ELSE @]

\* PowerUpManager.update
PowerUpManager_update(w, in) ==
    LET ps == w.powerup_manager.powerups
        qs == [i \in 1..Len(ps) |-> PowerUp_update(ps[i], in.dt, i <= in.powerups_out)]
    IN  [w EXCEPT !.powerup_manager.powerups = SelectSeq(qs, LAMBDA p : p.active)]

\* PowerUp.apply_effect: the message returned
PowerUp_apply_effect_ret(w, type, points) ==
    CASE type = "health" -> "+30 Health!"
      [] type = "weapon_upgrade" ->
            IF w.weapon_system.primary_level < 3
            THEN "Weapon Upgraded!" ELSE "+500 Points!"
      [] type = "missiles" -> "+3 Missiles!"
      [] type = "shield" -> "Shield Activated!"
      [] type = "score" ->
            (CASE points = 500 -> "+500 Points!"
               [] points = 1000 -> "+1000 Points!"
               [] OTHER -> "+2000 Points!")
      [] OTHER -> "Power-Up!"

\* Variant of the collection that applies the effect a second time
PowerUpManager_collect_one_twice(w, i, points) ==
    LET p == w.powerup_manager.powerups[i] IN
    Called([PowerUp_apply_effect(PowerUp_apply_effect(w, p.type, points),
                                 p.type, points)
               EXCEPT !.messages =
                          Append(@, PowerUp_apply_effect_ret(w, p.type, points)),
                      !.powerup_manager.powerups =
                          SubSeq(@, 1, i - 1) \o Drop(@, i)],
           "collect")

\* PowerUpManager.check_collection, the i-th power-up overlaps the aircraft:
\* its effect is applied, its message kept, and it is removed
PowerUpManager_collect_one(w, i, points) ==
    LET p == w.powerup_manager.powerups[i] IN
    Called([PowerUp_apply_effect(w, p.type, points)
               EXCEPT !.messages =
                          Append(@, PowerUp_apply_effect_ret(w, p.type, points)),
                      !.powerup_manager.powerups =
                          SubSeq(@, 1, i - 1) \o Drop(@, i)],
           "collect")

\* PowerUpManager.check_collection, from the i-th power-up on: with
\* in.collect the power-ups overlap the aircraft, but for the first in.skip
RECURSIVE PowerUpManager_collect(_, _, _)
PowerUpManager_collect(w, i, in) ==
    IF i > Len(w.powerup_manager.powerups) THEN w
    ELSE IF w.powerup_manager.powerups[i].active /\ in.collect /\ i > in.skip
         THEN PowerUpManager_collect(
                  PowerUpManager_collect_one(w, i, in.points), i, in)
         ELSE PowerUpManager_collect(w, i + 1, in)

\* Variant of the hit that awards the score and draws the drop whether or
\* not the enemy is destroyed
HitEnemy_every_hit(w, k, amount, in) ==
    LET e == w.enemy_manager.enemies[k] IN
    PowerUpManager_maybe_spawn_from_enemy(
        Aircraft_add_score(
            Called([w EXCEPT !.enemy_manager.enemies[k] =
                                 Enemy_take_damage(e, amount)], "enemy_hit"),
            e.score_value),
        in.drop)

\* Variant of the hit whose damage goes to the enemy after the k-th as well
HitEnemy_splash(w, k, amount, in) ==
    LET e  == w.enemy_manager.enemies[k]
        w1 == Called([w EXCEPT !.enemy_manager.enemies[k] =
                                   Enemy_take_damage(e, amount)], "enemy_hit")
        w2 == IF k + 1 <= Len(w.enemy_manager.enemies)
              THEN [w1 EXCEPT !.enemy_manager.enemies[k + 1] =
                                  Enemy_take_damage(@, amount)]
              ELSE w1
    IN  IF Enemy_take_damage_ret(e, amount)
        THEN PowerUpManager_maybe_spawn_from_enemy(
                 Aircraft_add_score(w2, e.score_value), in.drop)
        ELSE w2

\* check_collisions: enemy k is hit by a shot of the player
HitEnemy(w, k, amount, in) ==
    LET e  == w.enemy_manager.enemies[k]
        w1 == Called([w EXCEPT !.enemy_manager.enemies[k] =
                                   Enemy_take_damage(e, amount)], "enemy_hit")
    IN  IF Enemy_take_damage_ret(e, amount)
        THEN PowerUpManager_maybe_spawn_from_enemy(
                 Aircraft_add_score(w1, e.score_value), in.drop)
        ELSE w1

\* check_collisions: the boss is hit by a shot of the player
HitBoss(w, amount, in) ==
    LET b  == w.enemy_manager.boss[1]
        w1 == Called([w EXCEPT !.enemy_manager.boss[1] = Boss_take_damage(b, amount)],
                     "boss_hit")
    IN  IF Boss_take_damage_ret(b, amount)
        THEN PowerUpManager_maybe_spawn_from_boss(
                 Aircraft_add_score(
                     [w1 EXCEPT !.hist.boss_destroyed =
                                    IF b.by = "level" THEN @ + 1 ELSE @],
                     b.score_value),
                 in.boss_drop)
        ELSE w1

BossActive(w) == w.enemy_manager.boss # <<>> /\ w.enemy_manager.boss[1].active

\* check_collisions, "Player bullets vs enemies", from the i-th bullet on;
\* n counts the active bullets seen
RECURSIVE Collide_bullets(_, _, _, _)
Collide_bullets(w, i, n, in) ==
    IF i > Len(w.weapon_system.bullets) THEN w
    ELSE IF ~w.weapon_system.bullets[i].active
    THEN Collide_bullets(w, i + 1, n, in)
    ELSE
    LET k    == in.bullet_target
        over == n + 1 <= in.bullet_n
        used == [w EXCEPT !.weapon_system.bullets[i].active = FALSE]
        w1   == IF over /\ k >= 1 /\ k <= Len(w.enemy_manager.enemies)
                        /\ w.enemy_manager.enemies[k].active
                THEN HitEnemy(used, k, 15 * HP, in)
                ELSE IF over /\ k = 0 /\ BossActive(w)
                     THEN HitBoss(used, 15 * HP, in)
                     ELSE w
    IN  Collide_bullets(w1, i + 1, n + 1, in)

\* check_collisions, "Player missiles vs enemies", from the i-th missile on
RECURSIVE Collide_missiles(_, _, _, _)
Collide_missiles(w, i, n, in) ==
    IF i > Len(w.weapon_system.missiles) THEN w
    ELSE IF ~w.weapon_system.missiles[i].active
    THEN Collide_missiles(w, i + 1, n, in)
    ELSE
    LET k    == in.missile_target
        over == n + 1 <= in.missile_n
        used == [w EXCEPT !.weapon_system.missiles[i].active = FALSE]
        w1   == IF over /\ k >= 1 /\ k <= Len(w.enemy_manager.enemies)
                        /\ w.enemy_manager.enemies[k].active
                THEN HitEnemy(used, k, 40 * HP, in)
                ELSE IF over /\ k = 0 /\ BossActive(w)
                     THEN HitBoss(used, 40 * HP, in)
                     ELSE w
    IN  Collide_missiles(w1, i + 1, n + 1, in)

\* PlasmaLaser.get_damage_at_position for a position in the beam:
\* charge * 0.8 * 0.02 (in 1/100000)
PlasmaLaser_damage(l) == (l.charge * 16) \div 10

\* check_collisions, "Player lasers vs enemies": laser i against the enemies
\* from the k-th on
RECURSIVE Collide_laser_enemies(_, _, _, _)
Collide_laser_enemies(w, i, k, in) ==
    IF k > Len(w.enemy_manager.enemies) THEN w
    ELSE IF w.enemy_manager.enemies[k].active /\ in.laser_enemies
         THEN Collide_laser_enemies(
                  HitEnemy(w, k, PlasmaLaser_damage(w.weapon_system.lasers[i]), in),
                  i, k + 1, in)
         ELSE Collide_laser_enemies(w, i, k + 1, in)

RECURSIVE Collide_lasers(_, _, _)
Collide_lasers(w, i, in) ==
    IF i > Len(w.weapon_system.lasers) THEN w
    ELSE IF ~w.weapon_system.lasers[i].active THEN Collide_lasers(w, i + 1, in)
    ELSE LET w1 == Collide_laser_enemies(w, i, 1, in)
             w2 == IF BossActive(w1) /\ in.laser_boss
                   THEN HitBoss(w1, PlasmaLaser_damage(w1.weapon_system.lasers[i]), in)
                   ELSE w1
         IN  Collide_lasers(w2, i + 1, in)

\* Variant of the player's hit that does not look at the shield
HitPlayer_unshielded(w, energy_cost, amount) ==
    Aircraft_take_damage(w, amount)

\* check_collisions: the aircraft is hit; the shield takes it if it is up
HitPlayer(w, energy_cost, amount) ==
    IF w.aircraft.shield_active
    THEN Aircraft_take_shield_hit(w, energy_cost)
    ELSE Aircraft_take_damage(w, amount)

\* Variant in which a projectile that the shield absorbs flies on
HitByProjectile_through_shield(w, i) ==
    IF w.aircraft.shield_active THEN HitPlayer(w, 8, 10)
    ELSE [HitPlayer(w, 8, 10) EXCEPT !.enemy_manager.projectiles[i] = FALSE]

\* check_collisions, "Enemy projectiles vs player": the i-th projectile
\* overlaps the aircraft
HitByProjectile(w, i) ==
    [HitPlayer(w, 8, 10) EXCEPT !.enemy_manager.projectiles[i] = FALSE]

\* check_collisions, "Enemy projectiles vs player", from the i-th on
RECURSIVE Collide_projectiles(_, _, _, _)
Collide_projectiles(w, i, n, in) ==
    IF i > Len(w.enemy_manager.projectiles) THEN w
    ELSE IF ~w.enemy_manager.projectiles[i]
    THEN Collide_projectiles(w, i + 1, n, in)
    ELSE IF n + 1 <= in.proj_hit
         THEN Collide_projectiles(HitByProjectile(w, i), i + 1, n + 1, in)
         ELSE Collide_projectiles(w, i + 1, n + 1, in)

\* Variant of the contact in which an invulnerable aircraft spares the enemy
RamEnemy_only_if_hurt(w, k) ==
    IF w.aircraft.invulnerable /\ ~w.aircraft.shield_active
    THEN Called(HitPlayer(w, 15, 15), "ram")
    ELSE Called([HitPlayer(w, 15, 15) EXCEPT
                    !.enemy_manager.enemies[k] = Enemy_take_damage(@, 25 * HP)],
                "ram")

\* check_collisions, "Enemies vs player": the k-th enemy overlaps the
\* aircraft
RamEnemy(w, k) ==
    Called([HitPlayer(w, 15, 15) EXCEPT
               !.enemy_manager.enemies[k] = Enemy_take_damage(@, 25 * HP)],
           "ram")

\* Variant of the boss's contact that costs the boss 25 health
Collide_boss_hurt(w, in) ==
    IF BossActive(w) /\ in.boss_ram
    THEN [HitPlayer(w, 20, 20) EXCEPT
             !.enemy_manager.boss[1] = Boss_take_damage(@, 25 * HP)]
    ELSE w

\* check_collisions, "Boss vs player"
Collide_boss(w, in) ==
    IF BossActive(w) /\ in.boss_ram THEN HitPlayer(w, 20, 20) ELSE w

\* check_collisions, "Enemies vs player", from the k-th enemy on
RECURSIVE Collide_enemies(_, _, _)
Collide_enemies(w, k, in) ==
    IF k > Len(w.enemy_manager.enemies) THEN w
    ELSE IF w.enemy_manager.enemies[k].active /\ k \in in.ram
         THEN Collide_enemies(RamEnemy(w, k), k + 1, in)
         ELSE Collide_enemies(w, k + 1, in)

\* check_collisions
check_collisions(w, in) ==
    LET w1 == Collide_bullets(w, 1, 0, in)
        w2 == Collide_missiles(w1, 1, 0, in)
        w3 == Collide_lasers(w2, 1, in)
        w4 == Collide_projectiles(w3, 1, 0, in)
        w5 == Collide_enemies(w4, 1, in)
        w6 == Collide_boss(w5, in)
    IN  PowerUpManager_collect(w6, 1, in)

\* SkyFury.update, "Update fade if active" (fade_alpha in 1/1000)
SkyFury_update_fade(w, dt) ==
    LET g == w.game IN
    IF g.fade_direction = 0 THEN w
    ELSE LET al == g.fade_alpha + g.fade_direction * 400 * dt IN
         IF al <= 0
         THEN [w EXCEPT !.game.fade_alpha = 0, !.game.fade_direction = 0]
         ELSE [w EXCEPT !.game.fade_alpha = Min(al, 255 * MILLI)]

\* SkyFury.start_game: every object is made anew; the fade and the
\* transition timer are left as they are
SkyFury_start_game(w, level) ==
    [w EXCEPT !.aircraft = NewAircraft,
              !.weapon_system = NewWeaponSystem,
              !.enemy_manager = NewEnemyManager,
              !.powerup_manager = NewPowerUpManager,
              !.level_manager = NewLevelManager(level),
              !.game.current_level = level,
              !.game.state = "takeoff",
              !.hist = NoHistory]

\* SkyFury.update, "TAKEOFF PHASE": "Switch to combat phase"
SkyFury_engage(w) ==
    IF w.game.fade_alpha >= 255 * MILLI
    THEN Called([w EXCEPT !.game.state = "playing",
                          !.aircraft.invulnerable = FALSE,
                          !.aircraft.invulnerable_timer = 0,
                          !.aircraft.timer_residue = FALSE,
                          !.hist.hit_clock = 0 - 1,
                          !.game.transition_timer = 1500,
                          !.game.fade_direction = 0 - 1],
                "engage")
    ELSE w

\* SkyFury.update, "TAKEOFF PHASE": "Check if ready for combat"
SkyFury_check_ready(w) ==
    IF w.aircraft.has_taken_off /\ w.aircraft.y < 1000 * MILLI
    THEN SkyFury_engage(IF w.game.fade_direction = 0
                        THEN [w EXCEPT !.game.fade_direction = 1] ELSE w)
    ELSE w

\* Variant of the takeoff phase in which the level and the enemy manager are
\* updated as they are in the combat phase
SkyFury_update_takeoff_spawning(w, in) ==
    EnemyManager_update(
        LevelManager_update(
            SkyFury_check_ready(
                Aircraft_update(
                    SkyFury_handle_takeoff_controls(
                        SkyFury_update_fade(w, in.dt),
                        in.keys \cap {"UP", "DOWN"}, in.dt),
                    in.dt))),
        in)

\* SkyFury.update, "TAKEOFF PHASE"
SkyFury_update_takeoff(w, in) ==
    SkyFury_check_ready(
        Aircraft_update(
            SkyFury_handle_takeoff_controls(SkyFury_update_fade(w, in.dt),
                                            in.keys \cap {"UP", "DOWN"}, in.dt),
            in.dt))

\* Variant of the end of the combat phase in which the loss of the last
\* life, too, leads back to the takeoff
SkyFury_update_outcome_respawning(w) ==
    IF w.aircraft.health <= 0
    THEN [Aircraft_lose_life(w) EXCEPT !.game.state = "takeoff",
                                       !.game.fade_alpha = 0,
                                       !.game.fade_direction = 0]
    ELSE w

\* Variant of the end of the combat phase in which a life is lost below a
\* tenth of the health
SkyFury_update_outcome_early(w) ==
    IF w.aircraft.health <= 10
    THEN LET w1 == Aircraft_lose_life(w) IN
         IF w1.aircraft.lives <= 0
         THEN [w1 EXCEPT !.game.state = "game_over"]
         ELSE [w1 EXCEPT !.game.state = "takeoff",
                         !.game.fade_alpha = 0,
                         !.game.fade_direction = 0]
    ELSE w

\* SkyFury.update, "Check for aircraft death" and "Check for level completion"
SkyFury_update_outcome(w) ==
    IF w.aircraft.health <= 0
    THEN LET w1 == Aircraft_lose_life(w) IN
         IF w1.aircraft.lives <= 0
         THEN [w1 EXCEPT !.game.state = "game_over"]
         ELSE [w1 EXCEPT !.game.state = "takeoff",
                         !.game.fade_alpha = 0,
                         !.game.fade_direction = 0]
    ELSE IF w.level_manager.level_complete
         THEN IF w.game.current_level < 3
              THEN Called(SkyFury_start_game(w, w.game.current_level + 1),
                          "next_level")
              ELSE [w EXCEPT !.game.state = "victory"]
         ELSE w

\* the world as a tick finds it: every missile in flight records its angle
\* and the path it has flown
TickBegins(w) ==
    LET ms == w.weapon_system.missiles IN
    [w EXCEPT !.weapon_system.missiles =
        [i \in 1..Len(ms) |->
            [ms[i] EXCEPT !.angle0 = ms[i].angle, !.flown0 = ms[i].flown]]]

\* SkyFury.update, "COMBAT PHASE", down to "Check collisions"
SkyFury_update_combat(w, in) ==
    LET w1 == SkyFury_update_fade(TickBegins(w), in.dt)
        w2 == SkyFury_handle_combat_controls(w1, in.keys, in.dt)
        w3 == SkyFury_handle_weapon_controls(w2, in.keys)
        w4 == Aircraft_update(w3, in.dt)
        w5 == WeaponSystem_update(w4, in)
        w6 == LevelManager_update(w5)
        w7 == EnemyManager_update(w6, in)
        w8 == PowerUpManager_update(w7, in)
    IN  check_collisions(w8, in)

\* SkyFury.update, "COMBAT PHASE"
SkyFury_update_playing(w, in) ==
    SkyFury_update_outcome(SkyFury_update_combat(w, in))

\* SkyFury.handle_events, K_TAB while playing: "Cycle through bosses"
SkyFury_demo_boss(w) ==
    LET d  == (w.game.demo_boss_level % 3) + 1
        w1 == EnemyManager_spawn_boss(
                  [Orphaned(w) EXCEPT !.enemy_manager.enemies = <<>>,
                            !.enemy_manager.spawn_queue = <<>>,
                            !.game.demo_boss_level = d],
                  <<"hive_queen", "aegis_defender", "final_destroyer">>[d])
    IN  [w1 EXCEPT !.enemy_manager.boss[1].by = "demo"]

\* SkyFury.handle_events, K_ESCAPE during the takeoff, the combat or the pause
SkyFury_escape(w) ==
    CASE w.game.state \in {"takeoff", "playing"} ->
             [w EXCEPT !.game.state = "paused"]
      [] w.game.state = "paused" ->
             [w EXCEPT !.game.state = IF w.aircraft.has_taken_off
                                      THEN "playing" ELSE "takeoff"]
      [] OTHER -> w

\* SkyFury.update
SkyFury_update(w, in) ==
    CASE w.game.state = "takeoff" -> SkyFury_update_takeoff(w, in)
      [] w.game.state = "playing" -> SkyFury_update_playing(w, in)
      [] OTHER -> w

----------------------------------------------------------------------------
(***************************************************************************)
(* SpecAircraft: the Aircraft object on its own.  It starts in one of a    *)
(* set of sampled states of a flight (on the runway around the takeoff     *)
(* thresholds, in the air around the landing thresholds, with the          *)
(* resources full, low or empty) and takes up to MaxSteps of the Aircraft  *)
(* operations the game loop, the collision pass and the power-ups call.    *)
(***************************************************************************)

MaxSteps == 2

DtSet == {16, 100}

\* on the runway before takeoff
GroundSamples ==
    { [NewAircraft EXCEPT !.x = x, !.vx = vx, !.angle = g, !.thrust = t] :
        x \in {100000, 236500, 245000}, vx \in {0, 3600, 4000},
        g \in {0, 14990, 16000}, t \in {0, 100} }

\* airborne after takeoff
AirSamples ==
    { [NewAircraft EXCEPT !.x = 150000, !.y = y, !.vx = 6000, !.vy = vy,
                          !.angle = g, !.thrust = 100, !.on_ground = FALSE,
                          !.has_taken_off = TRUE, !.gear_down = FALSE] :
        y \in {300000, 498000}, vy \in {0 - TAKEOFF_CLIMB, 2950, 3100},
        g \in {0 - 10000, 0, 15000, 15500} }

\* the resources: health, fuel, invulnerability timer, shield duration and
\* energy, lives
FullResources ==
    [health |-> 100, fuel |-> 100 * FUEL_SCALE, inv |-> 0, shield |-> 0,
     energy |-> 50 * MILLI, lives |-> 3]

ResourceSamples ==
    { [FullResources EXCEPT !.health = h, !.fuel = f, !.inv = i] :
        h \in {100, 15}, f \in {100 * FUEL_SCALE, 5000, 0},
        i \in {0, 100, RESPAWN_INVULNERABLE_MS} }
    \cup
    { [FullResources EXCEPT !.shield = s[1], !.energy = s[2], !.lives = l,
                            !.health = 15] :
        s \in {<<0, 100 * MILLI>>, <<50, 50 * MILLI>>, <<5000, 50 * MILLI>>,
               <<5000, 100>>},
        l \in {1, 3} }

WithResources(a, r) ==
    [a EXCEPT !.health = r.health, !.fuel = r.fuel,
              !.thrust = IF r.fuel = 0 THEN 0 ELSE a.thrust,
              !.invulnerable = (r.inv > 0), !.invulnerable_timer = r.inv,
              !.shield_active = (r.shield > 0), !.shield_duration = r.shield,
              !.lives = r.lives]

\* shot down in the combat with a score: with two lives and part of the
\* fuel; with the last life; and with three lives, the fuel burnt, the
\* brakes on since the takeoff and the shield of a power-up collected in
\* the pass of the last hit
DownedSamples ==
    LET a == [NewAircraft EXCEPT !.x = 150000, !.y = 300000, !.vx = 6000,
                                 !.thrust = 100, !.on_ground = FALSE,
                                 !.has_taken_off = TRUE, !.gear_down = FALSE,
                                 !.health = 0, !.score = 1500,
                                 !.invulnerable = TRUE,
                                 !.invulnerable_timer = HIT_INVULNERABLE_MS]
    IN  { << [a EXCEPT !.lives = 2, !.fuel = 40 * FUEL_SCALE], 50 * MILLI >>,
          << [a EXCEPT !.lives = 1], 50 * MILLI >>,
          << [a EXCEPT !.fuel = 0, !.thrust = 0, !.brakes_active = TRUE,
                       !.shield_active = TRUE, !.shield_duration = 5000],
             100 * MILLI >> }

AircraftSamples ==
    { <<WithResources(a, r), r.energy>> :
        a \in GroundSamples \cup AirSamples,
        r \in {FullResources,
               [FullResources EXCEPT !.fuel = 5000],
               [FullResources EXCEPT !.inv = HIT_INVULNERABLE_MS, !.health = 15],
               [FullResources EXCEPT !.shield = 5000]} }
    \cup
    { <<WithResources(a, r), r.energy>> :
        a \in { [NewAircraft EXCEPT !.thrust = 100],
                [NewAircraft EXCEPT !.x = 150000, !.y = 300000, !.vx = 6000,
                                    !.thrust = 100, !.on_ground = FALSE,
                                    !.has_taken_off = TRUE, !.gear_down = FALSE] },
        r \in ResourceSamples }
    \cup DownedSamples

InitAircraft ==
    /\ \E s \in AircraftSamples :
          /\ aircraft = s[1]
          /\ weapon_system = [NewWeaponSystem EXCEPT !.shield_energy = s[2]]
    /\ enemy_manager = NewEnemyManager
    /\ level_manager = NewLevelManager(1)
    /\ powerup_manager = NewPowerUpManager
    /\ game = NewGame(1)
    /\ hist = NoHistory
    /\ plan = NoPlan
    /\ ev = NoEvent
    /\ steps = 0

Step(w, e) ==
    steps < MaxSteps /\ steps' = steps + 1 /\ plan' = plan /\ Commit(w, e)

AcUpdate ==
    \E dt \in DtSet :
        LET w == Aircraft_update(World, dt) IN Step(w, Event("update", dt, FALSE, w))

AcTakeoffControls ==
    \E keys \in {{}, {"UP"}, {"DOWN"}}, dt \in DtSet :
        LET w == SkyFury_handle_takeoff_controls(World, keys, dt)
        IN  Step(w, Event("takeoff_controls", dt, FALSE, w))

AcTakeDamage ==
    \E amount \in {10, 15, 20} :
        LET w == Aircraft_take_damage(World, amount)
        IN  Step(w, Event("take_damage", amount,
                          Aircraft_take_damage_ret(World, amount), w))

AcTakeShieldHit ==
    \E cost \in {8, 15, 20} :
        LET w == Aircraft_take_shield_hit(World, cost)
        IN  Step(w, Event("take_shield_hit", cost, FALSE, w))

AcHeal ==
    LET w == Aircraft_heal(World, 30) IN Step(w, Event("heal", 30, FALSE, w))

AcAddFuel ==
    LET w == Aircraft_add_fuel(World, 25) IN Step(w, Event("add_fuel", 25, FALSE, w))

AcPowerUp ==
    \E type \in PowerUpTypes :
      \E points \in IF type = "score" THEN ScoreChoices ELSE {500} :
        LET w == PowerUp_apply_effect(World, type, points)
        IN  Step(w, Event("apply_effect", points, FALSE, w))

\* the game loop calls lose_life when health <= 0 and the game is not over
AcLoseLife ==
    /\ aircraft.health <= 0
    /\ aircraft.lives > 0
    /\ LET w == Aircraft_lose_life(World) IN Step(w, Event("lose_life", 0, FALSE, w))

NextAircraft ==
    \/ AcUpdate
    \/ AcTakeoffControls
    \/ AcTakeDamage
    \/ AcTakeShieldHit
    \/ AcHeal
    \/ AcAddFuel
    \/ AcPowerUp
    \/ AcLoseLife

SpecAircraft == InitAircraft /\ [][NextAircraft]_vars

----------------------------------------------------------------------------
(* Claims about the Aircraft, checked under SpecAircraft *)

\* C4: after any sequence of Aircraft operations the health is within
\* [0, max_health] and the fuel within [0, max_fuel].
C4_HealthFuelBounds ==
    /\ 0 <= aircraft.health /\ aircraft.health <= aircraft.max_health
    /\ 0 <= aircraft.fuel /\ aircraft.fuel <= aircraft.max_fuel

\* a hit larger than the health left was floored at 0, and a running engine
\* has burnt the last fuel
C4_Witness ==
    \/ /\ ev.op = "take_damage" /\ ev.ret
       /\ ev.pre.health < ev.arg /\ aircraft.health = 0
    \/ /\ ev.op = "update" /\ aircraft.fuel = 0 /\ aircraft.thrust = 0
       /\ steps = 1

C7_OnlyLand ==
    [][ (~aircraft.on_ground /\ aircraft'.on_ground) => "land" \in ev'.calls ]_vars

\* C7 amended: once airborne, on_ground becomes true only through land() or
\* through the respawn reset of lose_life().
C7_OnlyLandOrRespawn ==
    [][ (~aircraft.on_ground /\ aircraft'.on_ground) =>
           \/ (ev'.op = "update" /\ "land" \in ev'.calls)
           \/ (ev'.op = "lose_life" /\ "respawn" \in ev'.calls) ]_vars

\* an airborne aircraft with no health left was put back on the runway by
\* lose_life
C7_Witness ==
    /\ ev.op = "lose_life" /\ ~ev.pre.on_ground /\ aircraft.on_ground
    /\ "respawn" \in ev.calls

\* C8: an airborne update that ends with y >= 500 lands when x is within
\* [50, 300], |velocity.y| <= 3.0 and |angle| <= 15.0 at the contact
\* (on_ground, velocity.y = 0, y = 500, gear down, health unchanged), and
\* crashes in every other case (health 0).
C8_LandOrCrash ==
    [][ (ev'.op = "update" /\ ~aircraft.on_ground) =>
          /\ (aircraft'.y >= 500000) <=> (ev'.touch # <<>>)
          /\ (ev'.touch # <<>>) =>
                LET t == ev'.touch[1] IN
                IF /\ 50000 <= t.x /\ t.x <= 300000
                   /\ 0 - 3000 <= t.vy /\ t.vy <= 3000
                   /\ 0 - 15000 <= t.angle /\ t.angle <= 15000
                THEN /\ aircraft'.on_ground
                     /\ aircraft'.vy = 0
                     /\ aircraft'.y = 500000
                     /\ aircraft'.gear_down
                     /\ aircraft'.health = aircraft.health
                     /\ ev'.calls = {"land"}
                ELSE /\ aircraft'.health = 0
                     /\ ~aircraft'.on_ground
                     /\ ev'.calls = {"crash"}
          /\ (ev'.touch = <<>>) => (~aircraft'.on_ground /\ ev'.calls = {}) ]_vars

\* a gentle touchdown has landed
C8_Witness ==
    /\ ev.op = "update" /\ ~ev.pre.on_ground /\ ev.touch # <<>>
    /\ ev.calls = {"land"} /\ aircraft.on_ground /\ aircraft.y = 500000
    /\ aircraft.health = ev.pre.health /\ aircraft.health > 0

\* a touchdown that is too fast, or too steep, has crashed
C8_WitnessCrash ==
    /\ ev.op = "update" /\ ~ev.pre.on_ground /\ ev.touch # <<>>
    /\ ev.calls = {"crash"} /\ aircraft.health = 0 /\ ev.pre.health > 0

----------------------------------------------------------------------------
(***************************************************************************)
(* Spec: the game loop.  It starts where start_game leaves the game, at    *)
(* any of the three levels, and its steps are SkyFury.update and the TAB    *)
(* and ESC keys of handle_events.  A level takes thousands of ticks, so     *)
(* the inputs follow a play: the keys a player holds and the outcomes of   *)
(* the draws and of the geometric tests, chosen from the state.  Every     *)
(* CutEvery ticks the loop may leave the play and take up to MaxFree ticks *)
(* with inputs of FreeInputs.                                              *)
(*   "ace"   holds UP through the takeoff, then stays up, fires whenever   *)
(*           the cooldowns allow, and every tick one bullet hits the first *)
(*           enemy, or the boss; the enemy's shots leave the screen, and   *)
(*           so do the bullets when there is nothing to hit.               *)
(*   "dive"  takes off like the ace, then holds DOWN with its first life,  *)
(*           raising the shield near the ground; after the respawn it      *)
(*           plays like the ace.                                           *)
(*   "slow"  plays like the ace on a machine that makes ten frames a       *)
(*           second in the combat (clock.tick gives dt = 100 ms); its      *)
(*           missiles take the time of their flight to reach the boss.     *)
(* TAB (the demo's boss) is pressed at a cut, or by the ace at tick DemoAt *)
(* and the play goes on; ESC pauses at a cut and resumes.                  *)
(***************************************************************************)

MaxTicks == 3000

MaxFree == 2

CutEvery == 25

DemoAt == 600

\* index of the first active enemy, 0 if there is none
RECURSIVE FirstActive(_, _)
FirstActive(es, i) ==
    IF i > Len(es) THEN 0 ELSE IF es[i].active THEN i ELSE FirstActive(es, i + 1)

AceInput(w) ==
    LET ws == w.weapon_system
        k  == FirstActive(w.enemy_manager.enemies, 1)
        boss == BossActive(w)
    IN  [Quiet(16, {"UP", "SPACE"}
                   \cup (IF boss THEN {"E"} ELSE {})
                   \cup (IF ws.laser_charge < 50 * MILLI THEN {"R"} ELSE {}))
           EXCEPT !.bullet_n = 1, !.bullet_target = k,
                  !.bullets_out = IF k = 0 /\ ~boss THEN Len(ws.bullets) ELSE 0,
                  !.missile_n = 1, !.missile_target = 0,
                  !.lock = k, !.aim = 0 - 29 * MILLI,
                  !.laser_enemies = TRUE, !.laser_boss = TRUE,
                  !.proj_out = Len(w.enemy_manager.projectiles)]

DiveInput(w) ==
    Quiet(16, {"DOWN"} \cup (IF w.aircraft.y >= 450 * MILLI THEN {"F"} ELSE {}))

\* the slow play's missiles reach the boss after 400 px of flight
SlowInput(w) ==
    LET ms == w.weapon_system.missiles
        j  == FirstActive(ms, 1)
    IN  [AceInput(w) EXCEPT
            !.dt = 100,
            !.missile_n = IF j > 0 /\ ms[j].flown >= 400 * MILLI THEN 1 ELSE 0]

PlayInput(w) ==
    IF w.game.state = "takeoff" THEN Quiet(16, {"UP"})
    ELSE IF plan.play = "dive" /\ w.aircraft.lives = 3 THEN DiveInput(w)
    ELSE IF plan.play = "slow" THEN SlowInput(w)
    ELSE AceInput(w)

\* the inputs a tick off the play may have
FreeInputs(w) ==
    LET k == FirstActive(w.enemy_manager.enemies, 1)
        q == Quiet(16, {})
    IN  << q,
           Quiet(100, {"UP", "SPACE"}),
           Quiet(16, {"DOWN", "F"}),
           [Quiet(16, {"SPACE"}) EXCEPT !.bullet_n = 2, !.bullet_target = k,
                                        !.drop = "shield"],
           [Quiet(16, {"E"}) EXCEPT !.missile_n = 1, !.missile_target = k,
                                        !.lock = 2, !.aim = 2 * MILLI],
           [Quiet(16, {"E"}) EXCEPT !.lock = 2, !.aim = 40 * MILLI],
           [q EXCEPT !.ram = {1}, !.proj_hit = 2],
           [q EXCEPT !.ram = {1, 2}, !.boss_ram = TRUE],
           [q EXCEPT !.shoots = {1, 2}, !.boss_extra = TRUE],
           [q EXCEPT !.collect = TRUE, !.points = 2000],
           [Quiet(16, {"UP"}) EXCEPT !.laser_enemies = TRUE, !.laser_boss = TRUE,
                                     !.bullets_out = 1, !.missiles_out = 1,
                                     !.powerups_out = 1, !.proj_out = 1],
           [Quiet(16, {"F"}) EXCEPT !.ram = {1}, !.proj_hit = 1,
                                    !.boss_ram = TRUE] >>

\* the first tick off the play takes any of them; the ticks after it repeat
\* it or are quiet
FreeChoice ==
    IF plan.free = 0 THEN 1..Len(FreeInputs(World)) ELSE {1, plan.last}

Init ==
    /\ aircraft = NewAircraft
    /\ weapon_system = NewWeaponSystem
    /\ enemy_manager = NewEnemyManager
    /\ \E level \in 1..3 :
          /\ level_manager = NewLevelManager(level)
          /\ game = NewGame(level)
    /\ powerup_manager = NewPowerUpManager
    /\ hist = NoHistory
    /\ plan \in {[play |-> p, free |-> 0, last |-> 0] : p \in {"ace", "dive", "slow"}}
    /\ ev = NoEvent
    /\ steps = 0

Running == game.state \in {"takeoff", "playing"}

\* the world w that a tick of dt ms leaves becomes the state
Advance(w, dt, p) ==
    /\ Commit(w, Event("tick", dt, FALSE, w))
    /\ steps' = steps + 1
    /\ plan' = p

\* one iteration of the game loop with the inputs in
Frame(in, p) == Advance(SkyFury_update(World, in), in.dt, p)

\* one SkyFury.update with the inputs of the play
Tick ==
    /\ Running /\ steps < MaxTicks /\ plan.free = 0
    /\ Frame(PlayInput(World), plan)

\* one SkyFury.update with inputs of its own
FreeTick ==
    /\ Running /\ steps < MaxTicks
    /\ plan.free < MaxFree
    /\ plan.free = 0 => steps % CutEvery = 0
    /\ \E i \in FreeChoice :
          Frame(FreeInputs(World)[i], [plan EXCEPT !.free = @ + 1, !.last = i])

\* the TAB key while playing
DemoBoss ==
    /\ game.state = "playing" /\ steps < MaxTicks
    /\ \/ /\ plan.free = 0 /\ plan.free < MaxFree
          /\ steps % CutEvery = 0
          /\ plan' = [plan EXCEPT !.free = @ + 1, !.last = 1]
       \/ /\ plan.play = "ace" /\ plan.free = 0
          /\ steps = DemoAt /\ game.demo_boss_level = 0
          /\ plan' = plan
    /\ Commit(SkyFury_demo_boss(World),
              Event("demo_boss", 0, FALSE, SkyFury_demo_boss(World)))
    /\ steps' = steps

\* the ESC key during the takeoff or the combat
Pause ==
    /\ Running /\ steps < MaxTicks
    /\ plan.free = 0 /\ steps % CutEvery = 0
    /\ Commit(SkyFury_escape(World), Event("pause", 0, FALSE, World))
    /\ steps' = steps /\ plan' = plan

\* the ESC key during the pause
Resume ==
    /\ game.state = "paused"
    /\ Commit(SkyFury_escape(World), Event("resume", 0, FALSE, World))
    /\ steps' = steps /\ plan' = plan

Next == Tick \/ FreeTick \/ DemoBoss \/ Pause \/ Resume

Spec == Init /\ [][Next]_vars

----------------------------------------------------------------------------
(* The end of a level.  hist.boss_spawned and hist.boss_destroyed count the *)
(* bosses that LevelManager.update has spawned in this level and those of   *)
(* them that a shot has destroyed.                                          *)

\* every wave of the level has been started and completed
AllWavesDone ==
    level_manager.current_wave
        >= Len(LevelManager_get_level_data(level_manager.current_level).waves)

\* C1: in the playing phase, once every wave has completed and the boss of
\* the level has been destroyed and removed, level_complete becomes true
\* under continued ticks and the game goes on to the next level or to the
\* victory.  The only code that sets level_complete is the branch of
\* LevelManager.update taken in exactly this state (all waves done, no
\* boss), and what it does there depends on nothing else, so "eventually"
\* is decided by the first tick from this state: it sets level_complete
\* (and the tick may already have moved on to the next level or to the
\* victory), or no later tick from this state will.
C1_LevelCompletes ==
    [][ ( /\ game.state = "playing" /\ ev'.op = "tick"
          /\ AllWavesDone /\ enemy_manager.boss = <<>>
          /\ hist.boss_destroyed > 0 )
        => \/ level_manager'.level_complete
           \/ game'.current_level = game.current_level + 1
           \/ game'.state = "victory" ]_vars

\* the level's boss has been destroyed and removed, and the ticks that
\* followed have spawned it again instead of completing the level
C1_Witness ==
    /\ ev.op = "tick" /\ game.state = "playing" /\ AllWavesDone
    /\ hist.boss_destroyed >= 1 /\ hist.boss_spawned = hist.boss_destroyed + 1
    /\ enemy_manager.boss # <<>> /\ enemy_manager.boss[1].by = "level"
    /\ ~level_manager.level_complete

\* level_complete is never set, and no game leaves the level it started at
LevelNeverCompletes ==
    /\ ~level_manager.level_complete
    /\ game.state # "victory"
    /\ ev.op = "tick" => "next_level" \notin ev.calls

\* C17: level_complete is never true while a boss is active, nor before every
\* wave of the level has completed and a boss has been spawned; the level
\* manager spawns a boss only when current_wave has passed the last wave,
\* and the enemy collection is empty right after the spawn.
C17_BossAfterWaves ==
    [][ /\ level_manager'.level_complete =>
              /\ \/ enemy_manager'.boss = <<>>
                 \/ ~enemy_manager'.boss[1].active
              /\ AllWavesDone'
              /\ hist'.boss_spawned >= 1
        /\ (ev'.op = "tick" /\ "spawn_boss" \in ev'.calls) =>
              /\ AllWavesDone /\ AllWavesDone'
              /\ hist'.boss_spawned = hist.boss_spawned + 1
              /\ enemy_manager'.boss # <<>>
              /\ enemy_manager'.boss[1].by = "level"
              /\ enemy_manager'.enemies = <<>>
        /\ hist'.boss_spawned > hist.boss_spawned =>
              ev'.op = "tick" /\ "spawn_boss" \in ev'.calls ]_vars

\* the tick in which the level manager spawns the boss of the level, after
\* its last wave
C17_Witness ==
    /\ ev.op = "tick" /\ "spawn_boss" \in ev.calls
    /\ AllWavesDone /\ hist.boss_spawned = 1
    /\ enemy_manager.boss # <<>> /\ enemy_manager.boss[1].by = "level"
    /\ ~enemy_manager.boss[1].entered
    /\ enemy_manager.enemies = <<>>
    /\ ~level_manager.level_complete

----------------------------------------------------------------------------
(* The phases of a boss. *)

\* the phase that the boss's health fraction calls for: 1 above 0.66, 2 above
\* 0.33 and up to 0.66, 3 up to 0.33
PhaseOf(b) ==
    IF b.health > (b.max_health \div 100) * 66 THEN 1
    ELSE IF b.health > (b.max_health \div 100) * 33 THEN 2
    ELSE 3

\* C15: for a boss that has completed its entry, at the end of every
\* Boss.update the phase matches the health fraction: 1 when health /
\* max_health > 0.66, 2 when 0.33 < health / max_health <= 0.66, 3 when
\* health / max_health <= 0.33.  In a tick of the combat phase that begins
\* with an active boss that has entered, EnemyManager.update calls
\* Boss.update on that boss with the tick's dt.
C15_PhaseMatchesHealth ==
    [][ ( /\ ev'.op = "tick" /\ game.state = "playing"
          /\ enemy_manager.boss # <<>>
          /\ enemy_manager.boss[1].active
          /\ enemy_manager.boss[1].entered ) =>
          LET b == Boss_update(enemy_manager.boss[1], ev'.arg)
          IN  b.phase = PhaseOf(b) ]_vars

\* a tick has ended with the boss in the first update of its second phase
\* while its health is at most 0.33 of max_health: the shots that landed
\* during the entry took it from above 0.66 to there
C15_Witness ==
    /\ ev.op = "tick" /\ enemy_manager.boss # <<>>
    /\ enemy_manager.boss[1].active /\ enemy_manager.boss[1].entered
    /\ enemy_manager.boss[1].phase = 2
    /\ enemy_manager.boss[1].phase_transition_timer = 2000 - ev.arg
    /\ PhaseOf(enemy_manager.boss[1]) = 3

----------------------------------------------------------------------------
(* The flight of a missile within one tick. *)

\* C20: between the start and the end of any single playing tick, an
\* in-flight missile's heading changes by at most the fixed maximum turn rate
\* (3 degrees) and its position advances by at most one step of its fixed
\* speed (12 x dt x 60).  The missiles in flight when the tick began are
\* those that have flown before it; the advance is measured along the path,
\* which two steps whose headings differ by 3 degrees at most exceed the
\* straight distance by less than 0.04 %.
C20_OneStepPerTick ==
    [][ (ev'.op = "tick" /\ game.state = "playing") =>
          \A i \in DOMAIN weapon_system'.missiles :
             LET m == weapon_system'.missiles[i] IN
             m.flown0 > 0 =>
                /\ Abs(m.angle - m.angle0) <= 3000
                /\ m.flown - m.flown0 <= MissileStep(ev'.arg) ]_vars

\* a tick has ended with a missile that was in flight when it began, is
\* still in flight, has turned by 6 degrees and has flown two steps
C20_Witness ==
    /\ ev.op = "tick"
    /\ \E i \in DOMAIN weapon_system.missiles :
          LET m == weapon_system.missiles[i] IN
          /\ m.active /\ m.flown0 > 0
          /\ Abs(m.angle - m.angle0) = 6000
          /\ m.flown - m.flown0 = 2 * MissileStep(ev.arg)

----------------------------------------------------------------------------
(* The target of a missile. *)

\* C21: after every tick in which at least one active enemy or boss exists,
\* each active missile's target is the nearest active enemy (boss included)
\* to that missile; a missile never keeps steering toward a target that is
\* inactive or no longer in the enemy collection or the boss slot.  The
\* last update of a missile in a playing tick is the one EnemyManager.update
\* makes, with the enemies and the boss that are left: nearest is the
\* nearest of them, and target is what the missile steered toward.
C21_TargetIsNearest ==
    [][ (ev'.op = "tick" /\ game.state = "playing") =>
          \A i \in DOMAIN weapon_system'.missiles :
             LET m == weapon_system'.missiles[i] IN
             (m.active /\ m.nearest # NoTarget) =>
                 /\ m.target = m.nearest
                 /\ m.target.kind # "lost" ]_vars

\* a tick has ended with a missile in flight that steers toward an object
\* that has left the collections, while the boss is there to home on
C21_Witness ==
    /\ ev.op = "tick"
    /\ \E i \in DOMAIN weapon_system.missiles :
          LET m == weapon_system.missiles[i] IN
          /\ m.active /\ m.target = LostTarget /\ m.nearest = BossTarget
          /\ m.angle # m.angle0

\* a tick has ended with a missile in flight that has kept its target, an
\* enemy that is still active, while another enemy is nearer
C21_WitnessKept ==
    /\ ev.op = "tick"
    /\ \E i \in DOMAIN weapon_system.missiles :
          LET m == weapon_system.missiles[i] IN
          /\ m.active /\ m.target.kind = "enemy" /\ m.nearest.kind = "enemy"
          /\ m.target # m.nearest
          /\ TargetActive(enemy_manager, m.target)

----------------------------------------------------------------------------
(* The energy of the shield over a tick. *)

\* a tick in which the shield was active from its beginning to its end,
\* was not raised anew by the key or by a power-up, and absorbed no hit
ShieldHeld ==
    /\ ev'.op = "tick" /\ game.state = "playing"
    /\ aircraft.shield_active /\ aircraft'.shield_active
    /\ ev'.calls \cap {"activate_shield", "collect", "respawn"} = {}
    /\ \A i \in DOMAIN ev'.hits : ev'.hits[i].op # "take_shield_hit"

\* C22: over a playing tick in which the aircraft's shield is active
\* throughout and absorbs no hit, shield energy ends the tick lower than it
\* started by the fixed drain (3 x dt, floored at 0); shield energy
\* regenerates only in ticks where the shield is not active.
C22_ShieldDrains ==
    [][ /\ ShieldHeld =>
              weapon_system'.shield_energy =
                  Max(0, weapon_system.shield_energy - 3 * ev'.arg)
        /\ ( /\ ev'.op = "tick" /\ game.state = "playing"
             /\ "collect" \notin ev'.calls
             /\ weapon_system'.shield_energy > weapon_system.shield_energy )
              => ~(aircraft.shield_active /\ aircraft'.shield_active) ]_vars

\* what the code does over such a tick: Aircraft.update drains 3 x dt and
\* WeaponSystem.update gives 3 x dt back, so the energy ends as it began
ShieldEnergyKept ==
    [][ ShieldHeld =>
          weapon_system'.shield_energy = weapon_system.shield_energy ]_vars

\* a tick has ended with the shield still active and no hit absorbed, and
\* with the energy it began with
C22_Witness ==
    /\ ev.op = "tick" /\ ev.pre.shield_active /\ aircraft.shield_active
    /\ ev.calls \cap {"activate_shield", "collect", "respawn"} = {}
    /\ ev.hits = <<>>
    /\ aircraft.shield_duration <= 5000 - 2 * ev.arg
    /\ weapon_system.shield_energy > 0
    /\ weapon_system.shield_energy = ev.pre.shield_energy

----------------------------------------------------------------------------
(* Spawning waits for the takeoff. *)

\* C3: in a tick that begins with has_taken_off false, no spawn queue is
\* installed, no enemy and no boss is spawned, and the enemy collection and
\* the spawn queue are left as they were.
C3_NoSpawnBeforeTakeoff ==
    [][ ~aircraft.has_taken_off =>
          /\ ev'.calls \cap {"set_spawn_queue", "spawn", "spawn_boss"} = {}
          /\ enemy_manager'.enemies = enemy_manager.enemies
          /\ enemy_manager'.spawn_queue = enemy_manager.spawn_queue ]_vars

\* a tick before the first takeoff
C3_WitnessFirstTakeoff ==
    /\ ev.op = "tick" /\ ~ev.pre.has_taken_off /\ ev.pre.state = "takeoff"
    /\ aircraft.lives = 3 /\ aircraft.vx > 0

\* a tick after a respawn, on the runway again with enemies of the wave
\* still waiting in the spawn queue
C3_Witness ==
    /\ ev.op = "tick" /\ ~ev.pre.has_taken_off /\ ev.pre.state = "takeoff"
    /\ aircraft.lives < 3 /\ ~aircraft.has_taken_off
    /\ ev.pre.queued > 0 /\ Len(enemy_manager.spawn_queue) = ev.pre.queued

----------------------------------------------------------------------------
(* The order of the waves.  Every queue entry and every enemy carries the   *)
(* index of the wave whose list it came from (WaveQueue).                   *)

\* the wave indices of the enemies in the collection and in the spawn queue
WavesPresent ==
    {enemy_manager.enemies[i].wave : i \in 1..Len(enemy_manager.enemies)}
        \cup {enemy_manager.spawn_queue[i].wave :
                  i \in 1..Len(enemy_manager.spawn_queue)}

\* C2: enemies of wave N+1 are in the collection or in the queue only when
\* nothing of wave N is left in either: all the enemies and queue entries
\* present belong to one wave, the current one; and a tick installs the
\* queue of a later wave only when it begins with the queue and the
\* collection empty.
C2_WaveOrder ==
    /\ WavesPresent \subseteq {level_manager.current_wave}
    /\ (ev.op = "tick" /\ "set_spawn_queue" \in ev.calls
           /\ level_manager.current_wave > 0)
          => (ev.pre.queued = 0 /\ ev.pre.enemies = 0)

\* an enemy of a later wave has been spawned after the wave before it was
\* cleared
C2_Witness ==
    /\ ev.op = "tick" /\ "spawn" \in ev.calls
    /\ level_manager.current_wave >= 1
    /\ Len(enemy_manager.enemies) > 0
    /\ enemy_manager.enemies[Len(enemy_manager.enemies)].wave
           = level_manager.current_wave

----------------------------------------------------------------------------
(* Damage under protection.  ev.hits holds, for every call of take_damage,  *)
(* take_shield_hit and crash made in the step, the protection in force at   *)
(* the call and the health and shield energy before and after it.           *)

\* the invulnerability timer is positive
TimerPositive(h) ==
    h.invulnerable_timer > 0 \/ (h.invulnerable_timer = 0 /\ h.timer_residue)

\* C10 as stated: no operation of a step decreases the health while the
\* invulnerability timer is positive or the shield is active, and a hit
\* taken with the shield active changes the shield energy only.
C10_NoDamageWhileProtected ==
    \A i \in 1..Len(ev.hits) :
        LET h == ev.hits[i] IN
        /\ (TimerPositive(h) \/ h.shield_active) => h.after >= h.before
        /\ (h.shield_active /\ h.op # "crash") =>
               (h.op = "take_shield_hit" /\ h.after = h.before)

\* C10 amended: no hit decreases the health while the invulnerability timer
\* is positive or the shield is active: take_damage is refused and leaves
\* the health as it was, and a hit taken with the shield active is a
\* take_shield_hit, which lowers the shield energy and nothing else.  A
\* crash sets the health to 0 whatever the protection.
C10_NoHitDamageWhileProtected ==
    \A i \in 1..Len(ev.hits) :
        LET h == ev.hits[i] IN
        /\ h.op = "crash" => h.after = 0
        /\ (h.op # "crash" /\ (TimerPositive(h) \/ h.shield_active)) =>
               h.after = h.before
        /\ (h.op # "crash" /\ h.shield_active) =>
               /\ h.op = "take_shield_hit"
               /\ h.energy_after < h.shield_energy
        /\ (h.op # "crash" /\ ~h.shield_active) => h.energy_after = h.shield_energy

\* a tick of the combat in which the raised shield took a hit: the energy
\* went down and the health stayed
C10_Witness ==
    /\ ev.op = "tick" /\ ev.pre.state = "playing"
    /\ \E i \in 1..Len(ev.hits) :
          /\ ev.hits[i].op = "take_shield_hit" /\ ev.hits[i].shield_active
          /\ ev.hits[i].energy_after < ev.hits[i].shield_energy
          /\ ev.hits[i].after = ev.hits[i].before /\ ev.hits[i].before > 0

\* a tick of the combat in which take_damage was called while the timer of
\* an earlier hit was still positive
C10_WitnessInvulnerable ==
    /\ ev.op = "tick" /\ ev.pre.state = "playing"
    /\ \E i \in 1..Len(ev.hits) :
          /\ ev.hits[i].op = "take_damage" /\ ev.hits[i].invulnerable_timer > 0
          /\ ev.hits[i].after = ev.hits[i].before /\ ev.hits[i].before > 0

\* a tick of the combat in which the aircraft crashed with its shield up
C10_WitnessCrash ==
    /\ ev.op = "tick" /\ ev.pre.state = "playing"
    /\ \E i \in 1..Len(ev.hits) :
          /\ ev.hits[i].op = "crash" /\ ev.hits[i].shield_active
          /\ ev.hits[i].before > 0 /\ ev.hits[i].after = 0

----------------------------------------------------------------------------
(* Enemies and bosses: the health bound. *)

\* C5: for every enemy and every boss, at every tick, 0 <= health <=
\* max_health.
C5_EnemyHealthBounds ==
    /\ \A i \in 1..Len(enemy_manager.enemies) :
           /\ 0 <= enemy_manager.enemies[i].health
           /\ enemy_manager.enemies[i].health <= enemy_manager.enemies[i].max_health
    /\ \A i \in 1..Len(enemy_manager.boss) :
           /\ 0 <= enemy_manager.boss[i].health
           /\ enemy_manager.boss[i].health <= enemy_manager.boss[i].max_health

\* a tick in which an enemy was hit has left it with health below 0
C5_WitnessBelowZero ==
    /\ ev.op = "tick" /\ "enemy_hit" \in ev.calls
    /\ \E i \in 1..Len(enemy_manager.enemies) :
           enemy_manager.enemies[i].health < 0

----------------------------------------------------------------------------
(***************************************************************************)
(* SpecDamage: the invulnerability window.  The aircraft stands on the     *)
(* runway as start_game leaves it, with the health full or nearly gone,    *)
(* and takes up to MaxDamageSteps of update, take_damage and lose_life.    *)
(***************************************************************************)

MaxDamageSteps == 7

DamageDtSet == {50, 100}

InitDamage ==
    /\ \E h \in {100, 15} : aircraft = [NewAircraft EXCEPT !.health = h]
    /\ weapon_system = NewWeaponSystem
    /\ enemy_manager = NewEnemyManager
    /\ level_manager = NewLevelManager(1)
    /\ powerup_manager = NewPowerUpManager
    /\ game = NewGame(1)
    /\ hist = NoHistory
    /\ plan = NoPlan
    /\ ev = NoEvent
    /\ steps = 0

DmStep(w, e) ==
    steps < MaxDamageSteps /\ steps' = steps + 1 /\ plan' = plan /\ Commit(w, e)

DmUpdate ==
    \E dt \in DamageDtSet :
        LET w == Aircraft_update(World, dt) IN DmStep(w, Event("update", dt, FALSE, w))

DmTakeDamage ==
    \E amount \in {10, 20} :
        LET w == Aircraft_take_damage(World, amount)
        IN  DmStep(w, Event("take_damage", amount,
                            Aircraft_take_damage_ret(World, amount), w))

DmLoseLife ==
    /\ aircraft.health <= 0
    /\ aircraft.lives > 0
    /\ LET w == Aircraft_lose_life(World) IN DmStep(w, Event("lose_life", 0, FALSE, w))

NextDamage == DmUpdate \/ DmTakeDamage \/ DmLoseLife

SpecDamage == InitDamage /\ [][NextDamage]_vars

\* C9 as stated: a take_damage while invulnerable returns false and leaves
\* the health and the timer as they were; a take_damage that lands starts a
\* window of 0.2 s; and the first take_damage with a positive amount after
\* updates totalling at least 0.2 s since the hit reduces the health.
C9_Window ==
    [][ (ev'.op = "take_damage") =>
          /\ aircraft.invulnerable =>
                (/\ ev'.ret = FALSE
                 /\ aircraft'.health = aircraft.health
                 /\ aircraft'.invulnerable_timer = aircraft.invulnerable_timer)
          /\ ~aircraft.invulnerable =>
                (/\ aircraft'.invulnerable
                 /\ aircraft'.invulnerable_timer = 200)
          /\ (hist.hit_clock >= 200 /\ ev'.arg > 0 /\ aircraft.health > 0) =>
                aircraft'.health < aircraft.health ]_vars

\* C9 amended: the same, but the hit after updates totalling exactly the
\* window is only certain to land when the subtractions left no residue in
\* the timer; after more than the window it always lands.
C9_WindowRounded ==
    [][ (ev'.op = "take_damage") =>
          /\ aircraft.invulnerable =>
                (/\ ev'.ret = FALSE
                 /\ aircraft'.health = aircraft.health
                 /\ aircraft'.invulnerable_timer = aircraft.invulnerable_timer)
          /\ ~aircraft.invulnerable =>
                (/\ aircraft'.invulnerable
                 /\ aircraft'.invulnerable_timer = 200)
          /\ (/\ ev'.arg > 0 /\ aircraft.health > 0
              /\ \/ hist.hit_clock > 200
                 \/ hist.hit_clock = 200 /\ ~aircraft.timer_residue) =>
                aircraft'.health < aircraft.health ]_vars

\* two updates of 0.1 s after a hit, and the next hit has landed
C9_Witness ==
    /\ ev.op = "take_damage" /\ ev.pre.hit_clock = 200
    /\ ~ev.pre.invulnerable /\ aircraft.health < ev.pre.health
    /\ aircraft.invulnerable /\ aircraft.invulnerable_timer = 200

\* four updates of 0.05 s after a hit, and the next hit was still refused
C9_WitnessResidue ==
    /\ ev.op = "take_damage" /\ ev.pre.hit_clock = 200
    /\ ev.pre.invulnerable /\ aircraft.health = ev.pre.health
    /\ aircraft.invulnerable_timer = 0 /\ aircraft.timer_residue


----------------------------------------------------------------------------
(***************************************************************************)
(* SpecWeapons: the WeaponSystem object and the aircraft it arms, on their *)
(* own.  It starts in one of a set of sampled states of a fight (the       *)
(* cooldowns at rest, just set or about to run out; the pools full, empty  *)
(* or around the thresholds of fire_laser and activate_shield; the shield  *)
(* down or up) and takes up to MaxWeaponSteps of the operations the game   *)
(* loop, the collision pass and the power-ups call on them.                *)
(***************************************************************************)

MaxWeaponSteps == 3

\* the aircraft in the combat phase
CombatAircraft ==
    [NewAircraft EXCEPT !.x = 150000, !.y = 300000, !.vx = 6000,
                        !.thrust = 100, !.on_ground = FALSE,
                        !.has_taken_off = TRUE, !.gear_down = FALSE]

\* every weapon fired in the frame before: the pools hold what the shots of
\* a new weapon system charged to 30 have left
AllFired ==
    [NewWeaponSystem EXCEPT
        !.cooldowns = [primary |-> 150, missile |-> 1500, laser |-> 3000,
                       shield |-> 8000],
        !.missile_count = 4, !.laser_charge = 0, !.shield_energy = 10 * MILLI]

\* the cooldowns within one frame of running out
NearlyReady ==
    [AllFired EXCEPT
        !.cooldowns = [primary |-> 6, missile |-> 12, laser |-> 100,
                       shield |-> 16]]

\* <<weapon system, shield duration of the aircraft>>
WeaponSamples ==
    { <<[ws EXCEPT !.primary_level = l], d>> :
        ws \in {NewWeaponSystem, AllFired, NearlyReady}, l \in 1..3,
        d \in {0, 5000} }
    \cup
    { <<[NewWeaponSystem EXCEPT !.missile_count = m, !.laser_charge = c,
                                !.shield_energy = e], d>> :
        m \in {0, 10}, c \in {29995, 30 * MILLI, 100 * MILLI},
        e \in {39997, 40 * MILLI, 100 * MILLI}, d \in {0} }
    \cup
    { <<[NewWeaponSystem EXCEPT !.shield_energy = e], 5000>> : e \in {20, 8 * MILLI} }

InitWeapons ==
    /\ \E s \in WeaponSamples :
          /\ weapon_system = s[1]
          /\ aircraft = [CombatAircraft EXCEPT !.shield_active = (s[2] > 0),
                                               !.shield_duration = s[2]]
    /\ enemy_manager = NewEnemyManager
    /\ level_manager = NewLevelManager(1)
    /\ powerup_manager = NewPowerUpManager
    /\ game = [NewGame(1) EXCEPT !.state = "playing"]
    /\ hist = NoHistory
    /\ plan = NoPlan
    /\ ev = NoEvent
    /\ steps = 0

WsStep(w, e) ==
    steps < MaxWeaponSteps /\ steps' = steps + 1 /\ plan' = plan /\ Commit(w, e)

WsFirePrimary ==
    LET w == WeaponSystem_fire_primary(World)
    IN  WsStep(w, Event("fire_primary", 0, WeaponSystem_fire_primary_ret(World), w))

WsFireMissile ==
    LET w == WeaponSystem_fire_missile(World)
    IN  WsStep(w, Event("fire_missile", 0, WeaponSystem_fire_missile_ret(World), w))

WsFireLaser ==
    LET w == WeaponSystem_fire_laser(World)
    IN  WsStep(w, Event("fire_laser", 0, WeaponSystem_fire_laser_ret(World), w))

WsActivateShield ==
    LET w == WeaponSystem_activate_shield(World)
    IN  WsStep(w, Event("activate_shield", 0,
                        WeaponSystem_activate_shield_ret(World), w))

\* the keys of the weapons: R charges the laser, its release fires it
WsControls ==
    \E keys \in {{"R"}, {}, {"SPACE", "E", "F"}} :
        LET w == SkyFury_handle_weapon_controls(World, keys)
        IN  WsStep(w, Event("weapon_controls", 0, FALSE, w))

WsUpdate ==
    \E dt \in DtSet :
        LET w == WeaponSystem_update(World, Quiet(dt, {}))
        IN  WsStep(w, Event("update", dt, FALSE, w))

WsAircraftUpdate ==
    \E dt \in DtSet :
        LET w == Aircraft_update(World, dt)
        IN  WsStep(w, Event("aircraft_update", dt, FALSE, w))

WsShieldHit ==
    \E cost \in {8, 20} :
        LET w == Aircraft_take_shield_hit(World, cost)
        IN  WsStep(w, Event("take_shield_hit", cost, FALSE, w))

WsPowerUp ==
    \E type \in {"weapon_upgrade", "missiles", "shield"} :
        LET w == PowerUp_apply_effect(World, type, 500)
        IN  WsStep(w, Event("apply_effect", 500, FALSE, w))

NextWeapons ==
    \/ WsFirePrimary
    \/ WsFireMissile
    \/ WsFireLaser
    \/ WsActivateShield
    \/ WsControls
    \/ WsUpdate
    \/ WsAircraftUpdate
    \/ WsShieldHit
    \/ WsPowerUp

SpecWeapons == InitWeapons /\ [][NextWeapons]_vars

----------------------------------------------------------------------------
(* Claims about the weapons, checked under SpecWeapons *)

\* the call returned false and changed neither the weapon system (cooldowns,
\* pools, projectiles) nor the aircraft (its shield)
Refused ==
    /\ ~ev'.ret
    /\ weapon_system' = weapon_system
    /\ aircraft' = aircraft

\* C11: a call of fire_primary, fire_missile, fire_laser or activate_shield
\* made while the channel's cooldown is positive, or while its resource
\* precondition fails (no missiles, laser charge below 30, shield energy
\* below 40), returns false, adds no projectile and leaves every cooldown,
\* every pool and the aircraft's shield as they were.
C11_RefusedFire ==
    [][ /\ ( /\ ev'.op = "fire_primary"
             /\ weapon_system.cooldowns.primary > 0 ) => Refused
        /\ ( /\ ev'.op = "fire_missile"
             /\ \/ weapon_system.cooldowns.missile > 0
                \/ weapon_system.missile_count <= 0 ) => Refused
        /\ ( /\ ev'.op = "fire_laser"
             /\ \/ weapon_system.cooldowns.laser > 0
                \/ weapon_system.laser_charge < 30 * MILLI ) => Refused
        /\ ( /\ ev'.op = "activate_shield"
             /\ \/ weapon_system.cooldowns.shield > 0
                \/ weapon_system.shield_energy < 40 * MILLI ) => Refused ]_vars

\* fire_laser was called with the laser cooled down and the charge just below
\* 30, and was refused
C11_Witness ==
    /\ ev.op = "fire_laser" /\ ~ev.ret
    /\ weapon_system.cooldowns.laser = 0
    /\ weapon_system.laser_charge = 29995
    /\ weapon_system.lasers = <<>>

\* activate_shield was called during the shield's cooldown with the energy
\* it needs, and was refused
C11_WitnessCooldown ==
    /\ ev.op = "activate_shield" /\ ~ev.ret
    /\ weapon_system.cooldowns.shield > 0
    /\ weapon_system.shield_energy >= 40 * MILLI
    /\ weapon_system.cooldowns.shield = 8000

\* the cooldown a successful fire sets on its channel
CooldownTime(op) ==
    CASE op = "fire_primary"    -> [k |-> "primary", t |-> 150]
      [] op = "fire_missile"    -> [k |-> "missile", t |-> 1500]
      [] op = "fire_laser"      -> [k |-> "laser",   t |-> 3000]
      [] op = "activate_shield" -> [k |-> "shield",  t |-> 8000]

\* the channel of the call is cooled down and has the resource it needs
CanFire(op) ==
    CASE op = "fire_primary"    -> weapon_system.cooldowns.primary = 0
      [] op = "fire_missile"    -> /\ weapon_system.cooldowns.missile = 0
                                   /\ weapon_system.missile_count > 0
      [] op = "fire_laser"      -> /\ weapon_system.cooldowns.laser = 0
                                   /\ weapon_system.laser_charge >= 30 * MILLI
      [] op = "activate_shield" -> /\ weapon_system.cooldowns.shield = 0
                                   /\ weapon_system.shield_energy >= 40 * MILLI

FireOps == {"fire_primary", "fire_missile", "fire_laser", "activate_shield"}

\* C12: a fire call made with the channel's cooldown at exactly 0 and its
\* resource precondition true returns true and sets that channel's cooldown
\* to its constant (primary 0.15 s, missile 1.5 s, laser 3 s, shield 8 s) and
\* no other; every WeaponSystem.update takes dt off every positive cooldown,
\* down to 0 at most, whatever has been fired on the other channels.
C12_Cooldowns ==
    [][ /\ (ev'.op \in FireOps /\ CanFire(ev'.op)) =>
              /\ ev'.ret
              /\ weapon_system'.cooldowns =
                     [weapon_system.cooldowns
                         EXCEPT ![CooldownTime(ev'.op).k] = CooldownTime(ev'.op).t]
        /\ ev'.op = "update" =>
              \A k \in DOMAIN weapon_system.cooldowns :
                  weapon_system'.cooldowns[k] =
                      IF weapon_system.cooldowns[k] > 0
                      THEN Max(0, weapon_system.cooldowns[k] - ev'.arg)
                      ELSE 0 ]_vars

\* an update has run a cooldown out (it had less than dt left) while another
\* channel, fired since, is still cooling down
C12_Witness ==
    /\ ev.op = "update"
    /\ weapon_system.cooldowns.primary = 0
    /\ weapon_system.cooldowns.shield = 0
    /\ weapon_system.cooldowns.missile = 1500 - ev.arg
    /\ weapon_system.cooldowns.laser > 0

\* a missile was fired with its channel at rest while the primary's cooldown
\* was running
C12_WitnessFire ==
    /\ ev.op = "fire_missile" /\ ev.ret
    /\ weapon_system.cooldowns.missile = 1500
    /\ weapon_system.cooldowns.primary \in 1..149

\* C13: after any sequence of updates, fires, shield activations, shield
\* hits, shield drain and power-ups, 0 <= missile_count <= max_missiles (10),
\* 0 <= laser_charge <= 100, 0 <= shield_energy <= 100 and
\* 1 <= primary_level <= 3.
C13_PoolBounds ==
    /\ 0 <= weapon_system.missile_count
    /\ weapon_system.missile_count <= weapon_system.max_missiles
    /\ weapon_system.max_missiles = 10
    /\ 0 <= weapon_system.laser_charge
    /\ weapon_system.laser_charge <= 100 * MILLI
    /\ 0 <= weapon_system.shield_energy
    /\ weapon_system.shield_energy <= 100 * MILLI
    /\ 1 <= weapon_system.primary_level
    /\ weapon_system.primary_level <= 3

\* a missile power-up was taken with 10 missiles aboard
C13_Witness ==
    /\ ev.op = "apply_effect"
    /\ weapon_system.missile_count = weapon_system.max_missiles
    /\ steps >= 2

\* a hit has taken the last of the shield's energy
C13_WitnessDrained ==
    /\ ev.op = "take_shield_hit"
    /\ weapon_system.shield_energy = 0
    /\ ~aircraft.shield_active

\* the bullets a successful fire_primary adds at primary level l
Volley(l) ==
    CASE l = 1 -> << [active |-> TRUE, angle |-> 0, dy |-> 0] >>
      [] l = 2 -> << [active |-> TRUE, angle |-> 0, dy |-> 0 - 10 * MILLI],
                     [active |-> TRUE, angle |-> 0, dy |-> 10 * MILLI] >>
      [] l = 3 -> << [active |-> TRUE, angle |-> 0, dy |-> 0],
                     [active |-> TRUE, angle |-> 15, dy |-> 0],
                     [active |-> TRUE, angle |-> 0 - 15, dy |-> 0] >>

\* C18: a successful fire_primary adds exactly 1 bullet at angle 0 at primary
\* level 1, exactly 2 bullets at angle 0, 10 units above and below the
\* aircraft, at level 2, and exactly 3 bullets at angles 0, +15 and -15 at
\* level 3; upgrade_primary never raises the level above 3.
C18_Volley ==
    [][ /\ (ev'.op = "fire_primary" /\ ev'.ret) =>
              /\ weapon_system.primary_level \in 1..3
              /\ weapon_system'.bullets =
                     weapon_system.bullets \o Volley(weapon_system.primary_level)
        /\ ev'.op = "apply_effect" =>
              /\ weapon_system'.primary_level <= 3
              /\ weapon_system'.primary_level >= weapon_system.primary_level
              /\ weapon_system'.primary_level <= weapon_system.primary_level + 1
      ]_vars

\* the triple shot was fired at level 3
C18_Witness ==
    /\ ev.op = "fire_primary" /\ ev.ret
    /\ weapon_system.primary_level = 3
    /\ Len(weapon_system.bullets) = 3
    /\ weapon_system.bullets[2].angle = 15
    /\ weapon_system.bullets[3].angle = 0 - 15

\* the upgrade was taken at level 3 and left the level as it was
C18_WitnessTop ==
    /\ ev.op = "apply_effect" /\ weapon_system.primary_level = 3
    /\ aircraft.score = 500


----------------------------------------------------------------------------
(***************************************************************************)
(* SpecCombat: the objects of a fight and their owners (the weapon system, *)
(* the enemy manager, the power-up manager) on their own.  It starts in    *)
(* one of a set of sampled states of the combat phase (the first two       *)
(* enemies of a wave on the screen, or the level's boss entering, hurt, or *)
(* in a phase transition; shots of the player in flight; power-ups         *)
(* drifting) and takes up to MaxCombatSteps of the operations the game     *)
(* loop calls in a tick, one at a time: the owners' updates, the collision *)
(* pass, the take_damage calls it makes, and the fires.                    *)
(***************************************************************************)

MaxCombatSteps == 3

\* a weapon system that has fired its three weapons: two bullets, a missile
\* and a beam are in flight
CombatWeapons ==
    [NewWeaponSystem EXCEPT
        !.cooldowns = [primary |-> 150, missile |-> 1500, laser |-> 3000,
                       shield |-> 0],
        !.missile_count = 4, !.laser_charge = 0,
        !.bullets = <<NewBullet(0, 0), NewBullet(0, 0)>>,
        !.missiles = <<NewMissile>>,
        !.lasers = <<[active |-> TRUE, charge |-> 100 * MILLI, lifetime |-> 600]>>]

\* <<level, wave>>: between them the first two enemies of these waves are of
\* every type
WaveSamples == {<<1, 0>>, <<1, 4>>, <<2, 1>>, <<2, 2>>, <<2, 4>>, <<3, 0>>}

\* <<x, entered, phase, phase_transition_timer, health>> of the level's boss:
\* about to end its entry; hurt, in phase 1; in the transition to phase 2;
\* hurt, in phase 2 after the transition; nearly destroyed, in phase 3
BossSamples ==
    { <<653 * MILLI, FALSE, 1, 0, 800>>, <<648 * MILLI, TRUE, 1, 0, 545>>,
      <<648 * MILLI, TRUE, 2, 2000, 515>>, <<648 * MILLI, TRUE, 2, 0, 275>>,
      <<648 * MILLI, TRUE, 3, 0, 10>> }

\* the enemy manager and the level manager in the wave s, with its first two
\* enemies spawned
WaveManagers(s) ==
    LET q == WaveQueue(LevelManager_get_level_data(s[1]), s[2]) IN
    << [NewEnemyManager EXCEPT
           !.enemies = << [NewEnemy(q[1].type, q[1].y, s[2])
                              EXCEPT !.x = 600 * MILLI],
                          NewEnemy(q[2].type, q[2].y, s[2]) >>,
           !.spawn_queue = Drop(q, 2),
           !.spawn_delay = LevelManager_get_level_data(s[1]).waves[s[2] + 1].delay],
       [NewLevelManager(s[1]) EXCEPT !.current_wave = s[2],
                                     !.waves_started = TRUE] >>

\* the enemy manager and the level manager with the boss s of level 1
BossManagers(s) ==
    << [NewEnemyManager EXCEPT
           !.boss = << [NewBoss(Level_1_data.boss) EXCEPT
                           !.x = s[1], !.entered = s[2], !.phase = s[3],
                           !.phase_transition_timer = s[4],
                           !.health = s[5] * HP] >>],
       [NewLevelManager(1) EXCEPT !.current_wave = Len(Level_1_data.waves),
                                  !.waves_started = TRUE] >>

InitCombat ==
    /\ aircraft = CombatAircraft
    /\ weapon_system = CombatWeapons
    /\ \E ms \in {WaveManagers(s) : s \in WaveSamples}
                 \cup {BossManagers(s) : s \in BossSamples} :
          /\ enemy_manager = ms[1]
          /\ level_manager = ms[2]
          /\ game = [NewGame(ms[2].current_level) EXCEPT !.state = "playing"]
          /\ hist = [NoHistory EXCEPT !.boss_spawned = Len(ms[1].boss)]
    /\ powerup_manager =
           [powerups |-> <<NewPowerUp("health"), NewPowerUp("missiles")>>]
    /\ plan = NoPlan
    /\ ev = NoEvent
    /\ steps = 0

CbStep(w, e) ==
    steps < MaxCombatSteps /\ steps' = steps + 1 /\ plan' = plan /\ Commit(w, e)

CbWeaponUpdate ==
    \E in \in { Quiet(16, {}), Quiet(100, {}),
                [Quiet(16, {}) EXCEPT !.bullets_out = 1, !.missiles_out = 1] } :
        LET w == WeaponSystem_update(World, in)
        IN  CbStep(w, Event("weapon_update", in.dt, FALSE, w))

CbEnemyUpdate ==
    \E in \in { Quiet(16, {}), Quiet(100, {}),
                [Quiet(2000, {}) EXCEPT !.shoots = {1}, !.boss_extra = TRUE,
                                        !.proj_out = 1] } :
        LET w == EnemyManager_update(World, in)
        IN  CbStep(w, Event("enemy_update", in.dt, FALSE, w))

CbPowerUpUpdate ==
    \E in \in { Quiet(16, {}), [Quiet(16, {}) EXCEPT !.powerups_out = 1] } :
        LET w == PowerUpManager_update(World, in)
        IN  CbStep(w, Event("powerup_update", in.dt, FALSE, w))

\* what overlaps what in a collision pass
CollisionInputs ==
    LET q == Quiet(16, {}) IN
    { q,
      [q EXCEPT !.bullet_n = 1, !.bullet_target = 1, !.drop = "shield"],
      [q EXCEPT !.bullet_n = 2, !.bullet_target = 0],
      [q EXCEPT !.missile_n = 1, !.missile_target = 1],
      [q EXCEPT !.missile_n = 1, !.missile_target = 0],
      [q EXCEPT !.laser_enemies = TRUE, !.laser_boss = TRUE],
      [q EXCEPT !.proj_hit = 1, !.ram = {1}, !.boss_ram = TRUE],
      [q EXCEPT !.collect = TRUE] }

CbCollisions ==
    \E in \in CollisionInputs :
        LET w == check_collisions(World, in)
        IN  CbStep(w, Event("collisions", in.dt, FALSE, w))

\* the amounts check_collisions passes to take_damage: a bullet, a ram, a
\* missile, and a frame in a beam of full charge
DamageAmounts == {15 * HP, 25 * HP, 40 * HP, 160000}

\* Enemy.take_damage as the collision pass calls it, on an active enemy
CbEnemyTakeDamage ==
    \E k \in DOMAIN enemy_manager.enemies, amount \in DamageAmounts :
        /\ enemy_manager.enemies[k].active
        /\ LET e == enemy_manager.enemies[k]
               w == [World EXCEPT !.enemy_manager.enemies[k] =
                                      Enemy_take_damage(e, amount)]
           IN  CbStep(w, Event("enemy_take_damage", [k |-> k, amount |-> amount],
                               Enemy_take_damage_ret(e, amount), w))

\* Boss.take_damage as the collision pass calls it, on an active boss
CbBossTakeDamage ==
    \E amount \in DamageAmounts \ {25 * HP} :
        /\ BossActive(World)
        /\ LET b == enemy_manager.boss[1]
               w == [World EXCEPT !.enemy_manager.boss[1] =
                                      Boss_take_damage(b, amount)]
           IN  CbStep(w, Event("boss_take_damage", amount,
                               Boss_take_damage_ret(b, amount), w))

CbFire ==
    \/ LET w == WeaponSystem_fire_primary(World)
       IN  CbStep(w, Event("fire_primary", 0, WeaponSystem_fire_primary_ret(World), w))
    \/ LET w == WeaponSystem_fire_missile(World)
       IN  CbStep(w, Event("fire_missile", 0, WeaponSystem_fire_missile_ret(World), w))

NextCombat ==
    \/ CbWeaponUpdate
    \/ CbEnemyUpdate
    \/ CbPowerUpUpdate
    \/ CbCollisions
    \/ CbEnemyTakeDamage
    \/ CbBossTakeDamage
    \/ CbFire

SpecCombat == InitCombat /\ [][NextCombat]_vars

----------------------------------------------------------------------------
(* Claims about the objects of a fight, checked under SpecCombat *)

\* C14: while a boss's phase-transition timer is positive, Boss.take_damage
\* returns false and leaves health and active unchanged for every amount, of
\* a bullet, a missile or a beam, and so a collision pass in which they hit
\* the boss leaves it as it was.
C14_BossTransition ==
    [][ ( /\ enemy_manager.boss # <<>>
          /\ enemy_manager.boss[1].phase_transition_timer > 0 ) =>
          /\ ev'.op = "boss_take_damage" =>
                /\ ~ev'.ret
                /\ enemy_manager'.boss = enemy_manager.boss
          /\ ev'.op = "collisions" =>
                /\ enemy_manager'.boss = enemy_manager.boss
                /\ hist'.boss_destroyed = hist.boss_destroyed ]_vars

\* a collision pass in which a shot hit the boss during its transition
C14_Witness ==
    /\ ev.op = "collisions" /\ "boss_hit" \in ev.calls
    /\ enemy_manager.boss # <<>>
    /\ enemy_manager.boss[1].phase_transition_timer > 0
    /\ enemy_manager.boss[1].health = 515 * HP
    /\ Inactive(weapon_system, enemy_manager, powerup_manager) > 0

\* take_damage of a missile was called on the boss during its transition
C14_WitnessCall ==
    /\ ev.op = "boss_take_damage" /\ ev.arg = 40 * HP /\ ~ev.ret
    /\ enemy_manager.boss[1].phase_transition_timer > 0
    /\ enemy_manager.boss[1].active

\* C19: for every enemy type, Enemy.take_damage(a) subtracts a from health
\* and returns true exactly when the health it leaves is <= 0, and then the
\* enemy is inactive; otherwise it returns false and the enemy stays active.
\* (A drone of 30 hit twice for 15 is destroyed by the second hit, with
\* health 0 and active false.)
C19_EnemyDamage ==
    [][ ev'.op = "enemy_take_damage" =>
          LET e  == enemy_manager.enemies[ev'.arg.k]
              e2 == enemy_manager'.enemies[ev'.arg.k]
          IN  /\ e2.health = e.health - ev'.arg.amount
              /\ ev'.ret = (e2.health <= 0)
              /\ e2.active = ~ev'.ret
              /\ e2 = [e EXCEPT !.health = e2.health, !.active = e2.active]
              /\ Len(enemy_manager'.enemies) = Len(enemy_manager.enemies) ]_vars

\* the second hit of 15 on a drone of 30
C19_Witness ==
    /\ ev.op = "enemy_take_damage" /\ ev.ret /\ ev.arg.amount = 15 * HP
    /\ enemy_manager.enemies[ev.arg.k].type = "drone"
    /\ enemy_manager.enemies[ev.arg.k].max_health = 30 * HP
    /\ enemy_manager.enemies[ev.arg.k].health = 0
    /\ ~enemy_manager.enemies[ev.arg.k].active

\* a hit that an elite survives
C19_WitnessSurvives ==
    /\ ev.op = "enemy_take_damage" /\ ~ev.ret
    /\ enemy_manager.enemies[ev.arg.k].type = "elite"
    /\ enemy_manager.enemies[ev.arg.k].health = 110 * HP
    /\ enemy_manager.enemies[ev.arg.k].active

\* every element of the sequence s is active
AllActive(s) == \A i \in DOMAIN s : s[i].active

\* the number of active elements of the sequence s
ActiveIn(s) == Cardinality({i \in DOMAIN s : s[i].active})

\* the step has kept every element of s, in its place, in s2, and has made
\* none of the inactive ones active
NoneRevived(s, s2) ==
    /\ Len(s2) >= Len(s)
    /\ \A i \in DOMAIN s : ~s[i].active => ~s2[i].active

\* C16: for every bullet, missile, laser, enemy, boss, enemy projectile and
\* power-up, once its active flag is false it is never set true again, and
\* it is removed from its collection (the boss slot is cleared) no later
\* than the next update of its owner.  Step by step: the update of an owner
\* leaves only active objects in its collections, and no more of them than
\* were active before (and were spawned); a collected power-up is removed
\* at once; and no other step removes an object or makes an inactive one
\* active.
C16_InactiveRemoved ==
    [][ /\ ev'.op = "weapon_update" =>
              /\ AllActive(weapon_system'.bullets)
              /\ AllActive(weapon_system'.missiles)
              /\ AllActive(weapon_system'.lasers)
              /\ Len(weapon_system'.bullets) <= ActiveIn(weapon_system.bullets)
              /\ Len(weapon_system'.missiles) <= ActiveIn(weapon_system.missiles)
              /\ Len(weapon_system'.lasers) <= ActiveIn(weapon_system.lasers)
        /\ ev'.op # "weapon_update" =>
              /\ NoneRevived(weapon_system.bullets, weapon_system'.bullets)
              /\ NoneRevived(weapon_system.missiles, weapon_system'.missiles)
              /\ NoneRevived(weapon_system.lasers, weapon_system'.lasers)
        /\ ev'.op = "enemy_update" =>
              /\ AllActive(enemy_manager'.enemies)
              /\ AllActive(enemy_manager'.boss)
              /\ \A i \in DOMAIN enemy_manager'.projectiles :
                     enemy_manager'.projectiles[i]
              /\ Len(enemy_manager'.enemies)
                     <= ActiveIn(enemy_manager.enemies)
                          + (IF "spawn" \in ev'.calls THEN 1 ELSE 0)
              /\ Len(enemy_manager'.boss) <= ActiveIn(enemy_manager.boss)
        /\ ev'.op # "enemy_update" =>
              /\ NoneRevived(enemy_manager.enemies, enemy_manager'.enemies)
              /\ NoneRevived(enemy_manager.boss, enemy_manager'.boss)
              /\ Len(enemy_manager'.projectiles) = Len(enemy_manager.projectiles)
              /\ \A i \in DOMAIN enemy_manager.projectiles :
                     ~enemy_manager.projectiles[i] => ~enemy_manager'.projectiles[i]
        /\ ev'.op \in {"powerup_update", "collisions"} =>
              /\ AllActive(powerup_manager'.powerups)
        /\ ev'.op = "powerup_update" =>
              Len(powerup_manager'.powerups) <= ActiveIn(powerup_manager.powerups)
        /\ ev'.op \notin {"powerup_update", "collisions"} =>
              NoneRevived(powerup_manager.powerups, powerup_manager'.powerups)
      ]_vars

\* an update of the enemy manager that found an enemy destroyed in the
\* collision pass before it, and removed it
C16_Witness ==
    /\ ev.op = "enemy_update" /\ steps >= 2
    /\ ev.pre.inactive > 0 /\ ev.pre.enemies = 2
    /\ Len(enemy_manager.enemies) = 1
    /\ "spawn" \notin ev.calls
    /\ aircraft.score > 0

\* an update of the enemy manager that found the boss destroyed, and cleared
\* its slot
C16_WitnessBoss ==
    /\ ev.op = "enemy_update" /\ ev.pre.inactive > 0
    /\ hist.boss_destroyed = 1 /\ enemy_manager.boss = <<>>
    /\ Len(powerup_manager.powerups) = 5

\* an update of the weapon system that found a bullet and a missile used up
\* by the collision pass before it, and removed them
C16_WitnessShots ==
    /\ ev.op = "weapon_update" /\ steps >= 2
    /\ ev.pre.inactive >= 2
    /\ Len(weapon_system.bullets) = 1 /\ weapon_system.missiles = <<>>
    /\ Inactive(weapon_system, enemy_manager, powerup_manager)
           < ev.pre.inactive

----------------------------------------------------------------------------
(***************************************************************************)
(* SpecCollision: the collision pass.  It starts where a tick's updates    *)
(* leave the combat (an aircraft that is unprotected, weak, invulnerable   *)
(* or shielded, two enemies of a wave or the boss, two enemy projectiles,  *)
(* the player's shots in flight, power-ups adrift) and takes up to         *)
(* MaxCollisionSteps collision passes and rounds of updates.  The event of *)
(* a step keeps its inputs in arg, and that of a pass keeps the messages   *)
(* the pass returns in ret.                                                *)
(***************************************************************************)

MaxCollisionSteps == 2

\* <<health, invulnerable_timer, shield_duration, shield_energy>>: the
\* aircraft unprotected, weak, invulnerable after a hit, shielded, and
\* shielded with the energy of one hit or less
ProtectionSamples ==
    { <<100, 0, 0, 50>>, <<10, 0, 0, 50>>, <<100, 150, 0, 50>>,
      <<100, 0, 3000, 50>>, <<60, 0, 3000, 8>>, <<60, 0, 3000, 5>> }

\* <<the power-ups adrift, the level of the primary weapon>>
PowerUpSamples ==
    LET ps == <<NewPowerUp("weapon_upgrade"), NewPowerUp("score"),
                [NewPowerUp("missiles") EXCEPT !.lifetime = 10]>>
    IN  { << <<NewPowerUp("health"), NewPowerUp("shield")>>, 1 >>,
          <<ps, 1>>, <<ps, 3>> }

\* the bosses of BossSamples that have entered
EnteredBosses ==
    { <<648 * MILLI, TRUE, 1, 0, 545>>, <<648 * MILLI, TRUE, 2, 2000, 515>>,
      <<648 * MILLI, TRUE, 3, 0, 10>> }

InitCollision ==
    /\ \E s \in ProtectionSamples, p \in PowerUpSamples :
          /\ powerup_manager = [powerups |-> p[1]]
          /\ aircraft = [CombatAircraft EXCEPT
                             !.health = s[1],
                             !.invulnerable = (s[2] > 0),
                             !.invulnerable_timer = s[2],
                             !.shield_active = (s[3] > 0),
                             !.shield_duration = s[3]]
          /\ weapon_system = [CombatWeapons EXCEPT
                                 !.shield_energy = s[4] * MILLI,
                                 !.primary_level = p[2]]
    /\ \E ms \in {WaveManagers(s) : s \in {<<1, 0>>, <<2, 2>>}}
                 \cup {BossManagers(s) : s \in EnteredBosses} :
          /\ enemy_manager = [ms[1] EXCEPT !.projectiles = <<TRUE, TRUE>>]
          /\ level_manager = ms[2]
          /\ game = [NewGame(ms[2].current_level) EXCEPT !.state = "playing"]
          /\ hist = [NoHistory EXCEPT !.boss_spawned = Len(ms[1].boss)]
    /\ plan = NoPlan
    /\ ev = NoEvent
    /\ steps = 0

ClStep(w, e) ==
    steps < MaxCollisionSteps /\ steps' = steps + 1 /\ plan' = plan /\ Commit(w, e)

\* what overlaps what in a collision pass
OverlapInputs ==
    LET q == Quiet(16, {}) IN
    { q,
      [q EXCEPT !.proj_hit = 1],
      [q EXCEPT !.proj_hit = 2],
      [q EXCEPT !.ram = {1}],
      [q EXCEPT !.ram = {1, 2}],
      [q EXCEPT !.boss_ram = TRUE],
      [q EXCEPT !.proj_hit = 2, !.ram = {2}, !.boss_ram = TRUE, !.collect = TRUE],
      [q EXCEPT !.bullet_n = 1, !.bullet_target = 1],
      [q EXCEPT !.bullet_n = 2, !.bullet_target = 1, !.drop = "shield"],
      [q EXCEPT !.bullet_n = 2, !.bullet_target = 1, !.missile_n = 1,
                !.missile_target = 1, !.laser_enemies = TRUE, !.drop = "health"],
      [q EXCEPT !.missile_n = 1, !.missile_target = 2, !.ram = {1, 2}],
      [q EXCEPT !.bullet_n = 2, !.bullet_target = 0, !.missile_n = 1,
                !.missile_target = 0, !.laser_boss = TRUE],
      [q EXCEPT !.bullet_n = 1, !.bullet_target = 0, !.boss_ram = TRUE],
      [q EXCEPT !.collect = TRUE],
      [q EXCEPT !.collect = TRUE, !.skip = 1, !.points = 1000],
      [q EXCEPT !.collect = TRUE, !.points = 2000,
                !.bullet_n = 2, !.bullet_target = 1, !.drop = "weapon_upgrade"] }

\* one collision pass
ClCollisions ==
    \E in \in OverlapInputs :
        LET w == check_collisions(World, in)
        IN  ClStep(w, Event("collisions", in, w.messages, w))

\* the updates of the weapons, the enemies and the power-ups that come
\* before the pass of the next tick
ClUpdates ==
    \E in \in { [Quiet(16, {}) EXCEPT !.powerups_out = 1, !.proj_out = 1],
                [Quiet(2000, {}) EXCEPT !.shoots = {1}] } :
        LET w == PowerUpManager_update(
                     EnemyManager_update(WeaponSystem_update(World, in), in), in)
        IN  ClStep(w, Event("updates", in, <<>>, w))

NextCollision == ClCollisions \/ ClUpdates

SpecCollision == InitCollision /\ [][NextCollision]_vars

----------------------------------------------------------------------------
(* Enemy projectiles against the aircraft. *)

\* the number of active projectiles of ps before the i-th
ActiveBefore(ps, i) == Cardinality({j \in 1..(i - 1) : ps[j]})

\* the number of projectiles that a pass with input in finds on the aircraft
ProjectilesOnAircraft(ps, in) == Min(in.proj_hit, ActiveBefore(ps, Len(ps) + 1))

\* C23: in a collision pass every active enemy projectile that overlaps the
\* aircraft is inactive after the pass, whatever the shield and the
\* invulnerability, and no other projectile changes; for each of them, in
\* order, with the shield up the health is unchanged and the shield energy
\* drops by 8, floored at 0, the shield going down at 0, and with the shield
\* down take_damage(10) is applied: the energy is unchanged and the health
\* drops by 10, floored at 0, unless the aircraft is invulnerable
C23_ProjectilesAbsorbed ==
    [][ev'.op = "collisions" =>
        LET in == ev'.arg
            ps == enemy_manager.projectiles
            n  == ProjectilesOnAircraft(ps, in)
            hs == ev'.hits
        IN  /\ Len(enemy_manager'.projectiles) = Len(ps)
            /\ \A i \in 1..Len(ps) :
                   enemy_manager'.projectiles[i] =
                       (ps[i] /\ ~(ActiveBefore(ps, i) < in.proj_hit))
            /\ Len(hs) >= n
            /\ \A i \in 1..n :
                   LET h == hs[i] IN
                   /\ h.before = (IF i = 1 THEN aircraft.health ELSE hs[i - 1].after)
                   /\ h.shield_energy = (IF i = 1 THEN weapon_system.shield_energy
                                         ELSE hs[i - 1].energy_after)
                   /\ h.shield_active = (IF i = 1 THEN aircraft.shield_active
                                         ELSE hs[i - 1].shield_after)
                   /\ IF h.shield_active
                      THEN /\ h.op = "take_shield_hit"
                           /\ h.after = h.before
                           /\ h.energy_after = Max(0, h.shield_energy - 8 * MILLI)
                           /\ h.shield_after = (h.energy_after > 0)
                      ELSE /\ h.op = "take_damage"
                           /\ h.energy_after = h.shield_energy
                           /\ ~h.shield_after
                           /\ h.after = (IF h.invulnerable THEN h.before
                                         ELSE Max(0, h.before - 10))
    ]_vars

\* a pass with two projectiles on the aircraft: the shield takes the first,
\* which empties it, and the second costs 10 health; both are inactive
C23_Witness ==
    /\ ev.op = "collisions"
    /\ ev.arg.proj_hit = 2
    /\ Len(ev.hits) >= 2
    /\ ev.hits[1].shield_active /\ ev.hits[1].energy_after = 0
    /\ ~ev.hits[1].shield_after
    /\ ev.hits[2].op = "take_damage"
    /\ ev.hits[2].after = ev.hits[2].before - 10
    /\ enemy_manager.projectiles = <<FALSE, FALSE>>

\* a pass in which a projectile meets an invulnerable aircraft without a
\* shield: the health stays and the projectile is inactive
C23_WitnessInvulnerable ==
    /\ ev.op = "collisions"
    /\ ev.arg.proj_hit = 1
    /\ Len(ev.hits) >= 1
    /\ ev.hits[1].invulnerable /\ ~ev.hits[1].shield_active
    /\ ev.hits[1].after = ev.hits[1].before
    /\ enemy_manager.projectiles = <<FALSE, TRUE>>

----------------------------------------------------------------------------
(* Enemies against the aircraft. *)

\* the world when the player's shots of a pass with input in have been
\* dealt with
AfterShots(in) ==
    Collide_lasers(Collide_missiles(Collide_bullets(World, 1, 0, in), 1, 0, in),
                   1, in)

\* the world when the player's shots and the enemy projectiles of a pass
\* with input in have been dealt with
BeforeContacts(in) == Collide_projectiles(AfterShots(in), 1, 0, in)

\* the hits of a step that came from contacts with enemies: those after the
\* hits of the projectiles
ContactHits(hs, n, r) == SubSeq(hs, n + 1, n + r)

\* C24 as stated: in a collision pass every active enemy that overlaps the
\* aircraft takes 25 and the aircraft is affected by each such contact too:
\* it loses health, or with the shield up shield energy
C24_ContactSymmetric ==
    [][ev'.op = "collisions" =>
        \A in \in {ev'.arg} :
        \A es \in {BeforeContacts(in).enemy_manager.enemies} :
        \A rammed \in {{k \in in.ram \cap DOMAIN es : es[k].active}} :
        LET n  == ProjectilesOnAircraft(enemy_manager.projectiles, in)
            r  == Cardinality(rammed)
            hs == ContactHits(ev'.hits, n, r)
        IN  /\ \A k \in rammed :
                   enemy_manager'.enemies[k].health = es[k].health - 25 * HP
            /\ Len(hs) = r
            /\ \A i \in 1..r :
                   IF hs[i].shield_active
                   THEN hs[i].energy_after < hs[i].shield_energy
                   ELSE hs[i].after < hs[i].before
    ]_vars

\* C24, amended: in a collision pass every active enemy that overlaps the
\* aircraft takes 25 (and is inactive at health 0 or less), no other enemy
\* changes, and each contact is handed to the aircraft: with the shield up
\* the energy drops by 15, floored at 0, the shield going down at 0, and the
\* health stays; with the shield down the health drops by 15, floored at 0,
\* unless the aircraft is invulnerable, and then nothing of it changes
C24_ContactBothSides ==
    [][ev'.op = "collisions" =>
        \A in \in {ev'.arg} :
        \A es \in {BeforeContacts(in).enemy_manager.enemies} :
        \A rammed \in {{k \in in.ram \cap DOMAIN es : es[k].active}} :
        LET n  == ProjectilesOnAircraft(enemy_manager.projectiles, in)
            r  == Cardinality(rammed)
            hs == ContactHits(ev'.hits, n, r)
        IN  /\ Len(enemy_manager'.enemies) = Len(es)
            /\ \A k \in DOMAIN es :
                   IF k \in rammed
                   THEN /\ enemy_manager'.enemies[k].health = es[k].health - 25 * HP
                        /\ enemy_manager'.enemies[k].active =
                               (es[k].health - 25 * HP > 0)
                   ELSE enemy_manager'.enemies[k] = es[k]
            /\ Len(hs) = r
            /\ \A i \in 1..r :
                   LET h == hs[i] IN
                   IF h.shield_active
                   THEN /\ h.op = "take_shield_hit"
                        /\ h.after = h.before
                        /\ h.energy_after = Max(0, h.shield_energy - 15 * MILLI)
                        /\ h.shield_after = (h.energy_after > 0)
                   ELSE /\ h.op = "take_damage"
                        /\ h.energy_after = h.shield_energy
                        /\ h.after = (IF h.invulnerable THEN h.before
                                      ELSE Max(0, h.before - 15))
    ]_vars

\* a pass in which two enemies overlap an unprotected aircraft: the first
\* contact costs 15 health and starts the invulnerability, the second
\* leaves the aircraft as it is, and both enemies have lost 25
C24_Witness ==
    /\ ev.op = "collisions"
    /\ ev.arg.ram = {1, 2} /\ ev.arg.missile_n = 0
    /\ Len(ev.hits) = 2
    /\ ~ev.hits[1].invulnerable /\ ~ev.hits[1].shield_active
    /\ ev.hits[1].after = ev.hits[1].before - 15
    /\ ev.hits[2].invulnerable /\ ev.hits[2].after = ev.hits[2].before
    /\ Len(enemy_manager.enemies) = 2
    /\ \A k \in 1..2 :
           enemy_manager.enemies[k].health = ev.pre.enemy_health[k] - 25 * HP

----------------------------------------------------------------------------
(* The boss against the aircraft. *)

\* C25: in a collision pass the contact between the boss and the aircraft
\* leaves the boss (health, phase, timers, active flag) as the player's shots
\* of the pass left it, so a pass without such shots leaves the boss as it
\* was; with an active boss on the aircraft the aircraft gets one hit after
\* those of the projectiles and the enemies: the shield, if up, loses 20
\* energy (floored at 0, going down at 0) and the health stays, and
\* otherwise take_damage(20) is applied; without the contact there is no
\* such hit
C25_BossContactOneSided ==
    [][ev'.op = "collisions" =>
        \A in \in {ev'.arg} : \A w \in {BeforeContacts(in)} :
        LET n  == ProjectilesOnAircraft(enemy_manager.projectiles, in)
            r  == Cardinality({k \in in.ram \cap DOMAIN w.enemy_manager.enemies :
                                  w.enemy_manager.enemies[k].active})
            hs == ev'.hits
        IN  /\ enemy_manager'.boss = w.enemy_manager.boss
            /\ (in.bullet_target # 0 \/ in.bullet_n = 0)
                   /\ (in.missile_target # 0 \/ in.missile_n = 0)
                   /\ ~in.laser_boss
                   => enemy_manager'.boss = enemy_manager.boss
            /\ IF BossActive(w) /\ in.boss_ram
               THEN /\ Len(hs) = n + r + 1
                    /\ LET h == hs[n + r + 1] IN
                       IF h.shield_active
                       THEN /\ h.op = "take_shield_hit"
                            /\ h.after = h.before
                            /\ h.energy_after = Max(0, h.shield_energy - 20 * MILLI)
                            /\ h.shield_after = (h.energy_after > 0)
                       ELSE /\ h.op = "take_damage"
                            /\ h.energy_after = h.shield_energy
                            /\ h.after = (IF h.invulnerable THEN h.before
                                          ELSE Max(0, h.before - 20))
               ELSE Len(hs) = n + r
    ]_vars

\* a pass in which the boss, hit by a bullet, overlaps the unprotected
\* aircraft: the aircraft loses 20 health and the boss only the 15 of the
\* bullet
C25_Witness ==
    /\ ev.op = "collisions"
    /\ ev.arg.boss_ram /\ ev.arg.bullet_n = 1
    /\ Len(ev.hits) = 1
    /\ ev.hits[1].op = "take_damage"
    /\ ev.hits[1].after = ev.hits[1].before - 20
    /\ Len(ev.pre.boss) = 1 /\ Len(enemy_manager.boss) = 1
    /\ enemy_manager.boss[1].active
    /\ enemy_manager.boss[1].health = ev.pre.boss[1].health - 15 * HP

\* a pass in which the boss overlaps the shielded aircraft and nothing else
\* happens: the shield loses 20 energy and the boss is as it was
C25_WitnessShield ==
    /\ ev.op = "collisions"
    /\ ev.arg.boss_ram /\ ev.arg.bullet_n = 0
    /\ Len(ev.hits) = 1
    /\ ev.hits[1].op = "take_shield_hit"
    /\ ev.hits[1].energy_after = ev.hits[1].shield_energy - 20 * MILLI
    /\ ev.pre.boss # <<>>
    /\ enemy_manager.boss = ev.pre.boss

----------------------------------------------------------------------------
(* The collection of power-ups. *)

\* the world when a pass with input in comes to the power-ups
AtCollection(in) ==
    Collide_boss(Collide_enemies(BeforeContacts(in), 1, in), in)

\* the power-ups of ps that a pass with input in finds active on the aircraft
Collected(ps, in) ==
    IF in.collect THEN {i \in DOMAIN ps : ps[i].active /\ i > in.skip} ELSE {}

\* the messages a power-up of the given type can return
MessagesOf(type) ==
    CASE type = "health" -> {"+30 Health!"}
      [] type = "weapon_upgrade" -> {"Weapon Upgraded!", "+500 Points!"}
      [] type = "missiles" -> {"+3 Missiles!"}
      [] type = "shield" -> {"Shield Activated!"}
      [] type = "score" -> {"+500 Points!", "+1000 Points!", "+2000 Points!"}
      [] OTHER -> {"Power-Up!"}

\* C26: in a collision pass the power-ups that are active and overlap the
\* aircraft are each collected once: the pass returns one message for each
\* of them, in their order, they are gone from the collection after the
\* pass and the others stay, in their order, and the effects are those of
\* one application each (30 health a health power-up, 3 missiles a missile
\* power-up, within the caps; a level a weapon upgrade, or 500 points at
\* level 3; the drawn points a score power-up; a full shield for 5 s a
\* shield power-up).  The collection never holds a power-up that is
\* inactive or whose lifetime has run out when a pass begins or ends, so
\* none such is applied.
C26_CollectedOnce ==
    [][/\ \A i \in DOMAIN powerup_manager'.powerups :
              /\ powerup_manager'.powerups[i].active
              /\ powerup_manager'.powerups[i].lifetime > 0
       /\ ev'.op = "collisions" =>
          \A in \in {ev'.arg} : \A w \in {AtCollection(in)} :
          LET ps   == w.powerup_manager.powerups
              c    == Collected(ps, in)
              keep == DOMAIN ps \ c
              n(t) == Cardinality({i \in c : ps[i].type = t})
              up   == Min(n("weapon_upgrade"), 3 - w.weapon_system.primary_level)
          IN  /\ \A i \in c : ps[i].active /\ ps[i].lifetime > 0
              /\ Len(ev'.ret) = Cardinality(c)
              /\ \A i \in c :
                     ev'.ret[Cardinality({j \in c : j <= i})] \in MessagesOf(ps[i].type)
              /\ Len(powerup_manager'.powerups) = Cardinality(keep)
              /\ \A i \in keep :
                     powerup_manager'.powerups[Cardinality({j \in keep : j <= i})]
                         = ps[i]
              /\ aircraft'.health =
                     Min(w.aircraft.max_health, w.aircraft.health + 30 * n("health"))
              /\ weapon_system'.missile_count =
                     Min(w.weapon_system.max_missiles,
                         w.weapon_system.missile_count + 3 * n("missiles"))
              /\ weapon_system'.primary_level = w.weapon_system.primary_level + up
              /\ aircraft'.score =
                     w.aircraft.score + 500 * (n("weapon_upgrade") - up)
                         + in.points * n("score")
              /\ IF n("shield") > 0
                 THEN /\ aircraft'.shield_active
                      /\ aircraft'.shield_duration = 5000
                      /\ weapon_system'.shield_energy =
                             w.weapon_system.max_shield_energy
                 ELSE /\ aircraft'.shield_active = w.aircraft.shield_active
                      /\ aircraft'.shield_duration = w.aircraft.shield_duration
                      /\ weapon_system'.shield_energy = w.weapon_system.shield_energy
    ]_vars

\* a pass that collected a weapon upgrade, a score power-up and a missile
\* power-up: three messages, a level more, the points, three missiles more,
\* and nothing left to collect
C26_Witness ==
    /\ ev.op = "collisions"
    /\ ev.arg.collect /\ ev.arg.skip = 0 /\ ev.arg.points = 2000
    /\ Len(ev.pre.powerups) = 3
    /\ ev.ret = <<"Weapon Upgraded!", "+2000 Points!", "+3 Missiles!">>
    /\ weapon_system.primary_level = 2
    /\ weapon_system.missile_count = 7
    /\ aircraft.score = ev.pre.score + 2000
    /\ powerup_manager.powerups = <<>>

\* a pass that left the first power-up where it is and collected the second
C26_WitnessOne ==
    /\ ev.op = "collisions"
    /\ ev.arg.collect /\ ev.arg.skip = 1
    /\ Len(ev.pre.powerups) = 2
    /\ Len(ev.ret) = 1
    /\ powerup_manager.powerups = <<ev.pre.powerups[1]>>

\* a round of updates in which a power-up ran out of lifetime and left the
\* collection, the aircraft's resources being what they were
C26_WitnessExpired ==
    /\ ev.op = "updates"
    /\ \E i \in DOMAIN ev.pre.powerups : ev.pre.powerups[i].lifetime <= ev.arg.dt
    /\ Len(powerup_manager.powerups) < Len(ev.pre.powerups)
    /\ aircraft.health = ev.pre.health /\ aircraft.score = ev.pre.score

----------------------------------------------------------------------------
(* The score of a collision pass. *)

RECURSIVE SumOver(_, _)
\* the sum of f[k] over the k of the finite set ks
SumOver(f, ks) ==
    IF ks = {} THEN 0
    ELSE LET k == CHOOSE x \in ks : TRUE IN f[k] + SumOver(f, ks \ {k})

\* C27: over a collision pass the score grows by the score_value of each
\* enemy, and of the boss, that was active and that the player's shots of
\* the pass destroyed, once each however many shots hit it, and by what the
\* collected power-ups give, and by nothing else: not by a hit that does
\* not destroy, nor by an enemy that the contact with the aircraft
\* destroys.  The power-ups dropped are one per enemy destroyed by a shot
\* when the draw gives one, and those of the boss when a shot destroys it.
C27_ScoreOnDestruction ==
    [][ev'.op = "collisions" =>
        \A in \in {ev'.arg} : \A s \in {AfterShots(in)} : \A w \in {AtCollection(in)} :
        LET es   == enemy_manager.enemies
            d    == {k \in DOMAIN es :
                        es[k].active /\ ~s.enemy_manager.enemies[k].active}
            bd   == BossActive(World) /\ ~BossActive(s)
            won  == SumOver([k \in DOMAIN es |-> es[k].score_value], d)
                        + (IF bd THEN enemy_manager.boss[1].score_value ELSE 0)
            ps   == w.powerup_manager.powerups
            c    == Collected(ps, in)
            n(t) == Cardinality({i \in c : ps[i].type = t})
            up   == Min(n("weapon_upgrade"), 3 - w.weapon_system.primary_level)
        IN  /\ \A k \in d : s.enemy_manager.enemies[k].health <= 0
            /\ \A k \in DOMAIN es \ d :
                   es[k].active => s.enemy_manager.enemies[k].health > 0
            /\ bd => s.enemy_manager.boss[1].health <= 0
            /\ s.aircraft.score = aircraft.score + won
            /\ w.aircraft.score = aircraft.score + won
            /\ aircraft'.score =
                   aircraft.score + won + 500 * (n("weapon_upgrade") - up)
                       + in.points * n("score")
            /\ Len(ps) = Len(powerup_manager.powerups)
                   + (IF in.drop = "none" THEN 0 ELSE Cardinality(d))
                   + (IF bd THEN Len(in.boss_drop) ELSE 0)
            /\ Len(powerup_manager'.powerups) + Len(ev'.ret) = Len(ps)
    ]_vars

\* a pass in which two bullets hit the first enemy, the second of them
\* destroying it: its score_value is won once and one power-up dropped
C27_Witness ==
    /\ ev.op = "collisions"
    /\ ev.arg.bullet_n = 2 /\ ev.arg.bullet_target = 1 /\ ev.arg.missile_n = 0
    /\ ev.arg.drop = "shield" /\ ~ev.arg.collect
    /\ Len(enemy_manager.enemies) = 2
    /\ ev.pre.enemy_health[1] > 15 * HP
    /\ ~enemy_manager.enemies[1].active
    /\ enemy_manager.enemies[2].active
    /\ aircraft.score = ev.pre.score + enemy_manager.enemies[1].score_value
    /\ Len(powerup_manager.powerups) = Len(ev.pre.powerups) + 1

\* a pass in which a bullet hits the first enemy and does not destroy it:
\* no score and no power-up
C27_WitnessHit ==
    /\ ev.op = "collisions"
    /\ ev.arg.bullet_n = 1 /\ ev.arg.bullet_target = 1 /\ ~ev.arg.boss_ram
    /\ Len(enemy_manager.enemies) = 2
    /\ enemy_manager.enemies[1].active
    /\ enemy_manager.enemies[1].health = ev.pre.enemy_health[1] - 15 * HP
    /\ aircraft.score = ev.pre.score
    /\ powerup_manager.powerups = ev.pre.powerups

\* a pass in which the contact with the aircraft destroys an enemy: no score
C27_WitnessRam ==
    /\ ev.op = "collisions"
    /\ ev.arg.ram = {1} /\ ev.arg.bullet_n = 0
    /\ Len(enemy_manager.enemies) = 2
    /\ ev.pre.enemy_health[1] > 0
    /\ ~enemy_manager.enemies[1].active
    /\ aircraft.score = ev.pre.score

\* a pass in which the player's shots destroy the boss: its score_value is
\* won once and its power-ups dropped
C27_WitnessBoss ==
    /\ ev.op = "collisions"
    /\ ev.arg.bullet_n = 2 /\ ev.arg.bullet_target = 0 /\ ev.arg.laser_boss
    /\ Len(ev.pre.boss) = 1 /\ ev.pre.boss[1].active
    /\ ~enemy_manager.boss[1].active
    /\ aircraft.score = ev.pre.score + enemy_manager.boss[1].score_value
    /\ Len(powerup_manager.powerups) = Len(ev.pre.powerups) + 3

----------------------------------------------------------------------------
(* The loss of a life. *)

\* C28: lose_life lowers lives by one and leaves the score; with lives left
\* the aircraft is at the runway start (100, 500), still, level, on the
\* ground, not taken off, gear down, thrust 0, health at max_health and
\* invulnerable for 2.0 s; with no life left nothing but lives changes
C28_LoseLife ==
    [][ev'.op = "lose_life" =>
        /\ aircraft'.lives = aircraft.lives - 1
        /\ aircraft'.score = aircraft.score
        /\ IF aircraft'.lives > 0
           THEN /\ aircraft'.x = 100 * MILLI /\ aircraft'.y = 500 * MILLI
                /\ aircraft'.vx = 0 /\ aircraft'.vy = 0 /\ aircraft'.angle = 0
                /\ aircraft'.on_ground /\ ~aircraft'.has_taken_off
                /\ aircraft'.gear_down
                /\ aircraft'.thrust = 0
                /\ aircraft'.health = aircraft.max_health
                /\ aircraft'.invulnerable
                /\ aircraft'.invulnerable_timer = 2000
                /\ "respawn" \in ev'.calls
           ELSE /\ aircraft' = [aircraft EXCEPT !.lives = 0]
                /\ "respawn" \notin ev'.calls
    ]_vars

\* the aircraft, shot down in flight with a score, has lost a life and
\* stands at the runway start
C28_Witness ==
    /\ ev.op = "lose_life"
    /\ ev.pre.lives = 2 /\ aircraft.lives = 1
    /\ ev.pre.score = 1500 /\ aircraft.score = 1500
    /\ ~ev.pre.on_ground /\ ev.pre.health = 0
    /\ aircraft.on_ground /\ aircraft.x = 100 * MILLI
    /\ aircraft.health = 100

\* the aircraft has lost its last life in flight and is where it was
C28_WitnessLast ==
    /\ ev.op = "lose_life"
    /\ ev.pre.lives = 1 /\ aircraft.lives = 0
    /\ aircraft.score = 1500
    /\ ~aircraft.on_ground /\ aircraft.health = 0 /\ aircraft.thrust = 100

\* C29: after lose_life with lives left the resources and flags of the
\* aircraft are those of a new aircraft: the fuel is max_fuel, the shield is
\* down, the brakes and the spoilers are off
C29_RespawnIsFull ==
    [][ev'.op = "lose_life" /\ aircraft'.lives > 0 =>
        /\ aircraft'.fuel = aircraft'.max_fuel
        /\ ~aircraft'.shield_active /\ aircraft'.shield_duration = 0
        /\ ~aircraft'.brakes_active
        /\ ~aircraft'.spoilers_active /\ aircraft'.flaps = 0
        /\ aircraft'.health = aircraft'.max_health
    ]_vars

\* what lose_life leaves as it was: the fuel, the shield, the brakes
C29_RespawnKeeps ==
    [][ev'.op = "lose_life" =>
        /\ aircraft'.fuel = aircraft.fuel
        /\ aircraft'.shield_active = aircraft.shield_active
        /\ aircraft'.shield_duration = aircraft.shield_duration
        /\ aircraft'.brakes_active = aircraft.brakes_active
        /\ aircraft'.spoilers_active = aircraft.spoilers_active
        /\ aircraft'.flaps = aircraft.flaps
    ]_vars

\* the aircraft has respawned with part of its fuel
C29_Witness ==
    /\ ev.op = "lose_life"
    /\ aircraft.lives > 0
    /\ aircraft.health = aircraft.max_health
    /\ aircraft.fuel = 40 * FUEL_SCALE

\* the aircraft has respawned without fuel, with the shield up and the
\* brakes on
C29_WitnessFlags ==
    /\ ev.op = "lose_life"
    /\ aircraft.lives > 0
    /\ aircraft.fuel = 0
    /\ aircraft.shield_active /\ aircraft.brakes_active

----------------------------------------------------------------------------
(* The fuel. *)

\* C30: an Aircraft.update with thrust > 0 lowers the fuel by thrust x 0.005
\* x dt, floored at 0, and one with thrust 0 leaves the fuel; after every
\* update fuel = 0 implies thrust = 0, and with fuel left the thrust is what
\* it was
C30_FuelBurn ==
    [][ev'.op = "update" =>
        /\ aircraft.thrust >= 0
        /\ aircraft'.fuel = (IF aircraft.thrust > 0
                             THEN Max(0, aircraft.fuel - aircraft.thrust * 5 * ev'.arg)
                             ELSE aircraft.fuel)
        /\ aircraft'.fuel = 0 => aircraft'.thrust = 0
        /\ aircraft'.fuel > 0 => aircraft'.thrust = aircraft.thrust
    ]_vars

\* an update with the engine running has burnt the last fuel and stopped
\* the engine
C30_Witness ==
    /\ ev.op = "update"
    /\ ev.pre.thrust = 100 /\ ev.pre.fuel > 0 /\ ev.pre.fuel < 100 * 5 * ev.arg
    /\ aircraft.fuel = 0 /\ aircraft.thrust = 0

\* an update with the engine running has burnt thrust x 0.005 x dt of fuel
C30_WitnessBurn ==
    /\ ev.op = "update"
    /\ ev.pre.thrust = 100 /\ ev.arg = 100
    /\ aircraft.fuel = ev.pre.fuel - 50000
    /\ aircraft.fuel > 0 /\ aircraft.thrust = 100

\* an update with the engine off has left the fuel
C30_WitnessIdle ==
    /\ ev.op = "update"
    /\ ev.pre.thrust = 0 /\ ev.pre.fuel > 0
    /\ aircraft.fuel = ev.pre.fuel

----------------------------------------------------------------------------
(***************************************************************************)
(* SpecSpawn: the enemy manager draining the queue of a wave.  It starts   *)
(* where LevelManager.update has installed the queue of a wave and set its *)
(* delay, and every step is one EnemyManager.update for as long as the     *)
(* queue holds an entry.  The frames follow a play: 60 a second ("fast"),  *)
(* 10 a second ("slow"), frames longer than two delays ("lag"), or a mix   *)
(* of them ("mixed").  FairSpawn adds that the game loop goes on calling   *)
(* update.                                                                 *)
(***************************************************************************)

\* the dt (ms) of the n-th update of a play
SpawnDt(play, n) ==
    CASE play = "fast" -> 16
      [] play = "slow" -> 100
      [] play = "lag"  -> 2500
      [] OTHER         -> <<16, 100, 16, 700, 2500>>[(n % 5) + 1]

\* <<level, wave>>
SpawnSamples == {<<1, 0>>, <<2, 4>>, <<3, 3>>}

InitSpawn ==
    /\ aircraft = CombatAircraft
    /\ weapon_system = NewWeaponSystem
    /\ \E s \in SpawnSamples :
          LET data == LevelManager_get_level_data(s[1]) IN
          /\ enemy_manager =
                 [NewEnemyManager EXCEPT
                     !.spawn_queue = WaveQueue(data, s[2]),
                     !.spawn_delay = data.waves[s[2] + 1].delay]
          /\ level_manager = [NewLevelManager(s[1]) EXCEPT
                                  !.current_wave = s[2], !.waves_started = TRUE]
          /\ game = [NewGame(s[1]) EXCEPT !.state = "playing"]
    /\ powerup_manager = NewPowerUpManager
    /\ hist = NoHistory
    /\ plan \in {[NoPlan EXCEPT !.play = p] : p \in {"fast", "slow", "lag", "mixed"}}
    /\ ev = NoEvent
    /\ steps = 0

\* one EnemyManager.update while the queue holds an entry
SpUpdate ==
    /\ enemy_manager.spawn_queue # <<>>
    /\ \E dt \in {SpawnDt(plan.play, steps)} :
       \E w \in {EnemyManager_update(World, Quiet(dt, {}))} :
          Commit(w, Event("enemy_update", dt, FALSE, w))
    /\ steps' = steps + 1 /\ plan' = plan

NextSpawn == SpUpdate

SpecSpawn == InitSpawn /\ [][NextSpawn]_vars

FairSpawn == SpecSpawn /\ WF_vars(SpUpdate)

----------------------------------------------------------------------------
(* The spawning of a wave. *)

\* what an EnemyManager.update does to the queue: the spawn_timer, 0 when
\* the queue is installed and after a spawn, grows by the dt of every update
\* without a spawn, so it is the dt accumulated since then; an update spawns
\* only when it brings the timer to spawn_delay or more, and then it takes
\* the entry at the front, the others staying as they are, and the new
\* enemy, the last of the enemies, is of that entry's type and height
SpawnsInOrder ==
    ev'.op = "enemy_update" =>
        LET q == enemy_manager.spawn_queue
            t == enemy_manager.spawn_timer + ev'.arg
        IN  /\ enemy_manager'.spawn_delay = enemy_manager.spawn_delay
            /\ IF "spawn" \in ev'.calls
               THEN /\ q # <<>>
                    /\ t >= enemy_manager.spawn_delay
                    /\ enemy_manager'.spawn_queue = Tail(q)
                    /\ enemy_manager'.spawn_timer = 0
                    /\ enemy_manager'.enemies # <<>>
                    /\ LET e == enemy_manager'.enemies[Len(enemy_manager'.enemies)]
                       IN  /\ e.type = Head(q).type /\ e.y = Head(q).y
                           /\ e.wave = Head(q).wave
                    /\ Len(enemy_manager'.enemies) <= Len(enemy_manager.enemies) + 1
               ELSE /\ q = <<>> \/ t < enemy_manager.spawn_delay
                    /\ enemy_manager'.spawn_queue = q
                    /\ enemy_manager'.spawn_timer = t
                    /\ Len(enemy_manager'.enemies) <= Len(enemy_manager.enemies)

\* C31: the enemy manager spawns the entries of a wave's queue from the
\* front, at most one per update, and none before the dt accumulated since
\* the queue was installed or since the last spawn has reached spawn_delay;
\* and the queue of a wave, which holds entries when it is installed, is
\* empty after finitely many updates
C31_SpawnQueue ==
    /\ [][SpawnsInOrder]_vars
    /\ <>(enemy_manager.spawn_queue = <<>>)

\* the last entry of a wave has been spawned, by an update shorter than the
\* delay of the wave, and the queue is empty
C31_Witness ==
    /\ ev.op = "enemy_update" /\ ev.arg < enemy_manager.spawn_delay
    /\ "spawn" \in ev.calls
    /\ ev.pre.queued = 1
    /\ enemy_manager.spawn_queue = <<>>
    /\ enemy_manager.spawn_timer = 0
    /\ Len(enemy_manager.enemies) >= 2

\* an update longer than two delays has spawned one enemy, not two
C31_WitnessLag ==
    /\ ev.op = "enemy_update" /\ ev.arg = 2500
    /\ 2 * enemy_manager.spawn_delay <= 2500
    /\ "spawn" \in ev.calls
    /\ ev.pre.queued >= 2
    /\ Len(enemy_manager.spawn_queue) = ev.pre.queued - 1


----------------------------------------------------------------------------
(* The plasma laser. *)

\* PlasmaLaser.__init__: the width of the beam (1/1000 px)
PlasmaLaser_width(l) == 10 * MILLI + (l.charge * 15) \div 100

\* the beams bs after dt ms: those whose lifetime has not run out
Aged(bs, dt) ==
    SelectSeq([i \in 1..Len(bs) |-> [bs[i] EXCEPT !.lifetime = @ - dt]],
              LAMBDA l : l.lifetime > 0)

\* the beam that PlasmaLaser(position, charge) makes
BeamOf(charge) ==
    [active |-> TRUE, charge |-> Min(100 * MILLI, charge), lifetime |-> 600]

\* the charges (1/1000) from the threshold of fire_laser to over the full pool
ChargeRange == {k * 500 : k \in 60..210}

\* C32: a successful fire_laser leaves laser_charge 0 (the weapon update of
\* the same tick regenerates from 0) and the charging flag clear, and adds
\* exactly one beam, whose damage and width are non-decreasing in the charge
\* spent; a beam stays active and in the list, whatever it hits, until its
\* lifetime of 0.6 s has run out
C32_LaserBeam ==
    [][ev'.op = "tick" /\ game.state = "playing" =>
        \A dt \in {ev'.arg} : \A old \in {Aged(weapon_system.lasers, dt)} :
        LET ls == weapon_system'.lasers IN
        /\ \A i \in DOMAIN ls : ls[i].active
        /\ IF "fire_laser" \in ev'.calls
           THEN /\ Len(ls) = Len(old) + 1
                /\ SubSeq(ls, 1, Len(old)) = old
                /\ ls[Len(ls)] =
                       [BeamOf(weapon_system.laser_charge) EXCEPT !.lifetime = @ - dt]
                /\ weapon_system'.laser_charge = 5 * dt
                /\ ~weapon_system'.is_charging_laser
                /\ \A c \in ChargeRange :
                      LET b == BeamOf(weapon_system.laser_charge) IN
                      /\ c <= weapon_system.laser_charge =>
                            /\ PlasmaLaser_damage(BeamOf(c)) <= PlasmaLaser_damage(b)
                            /\ PlasmaLaser_width(BeamOf(c)) <= PlasmaLaser_width(b)
                      /\ c >= weapon_system.laser_charge =>
                            /\ PlasmaLaser_damage(BeamOf(c)) >= PlasmaLaser_damage(b)
                            /\ PlasmaLaser_width(BeamOf(c)) >= PlasmaLaser_width(b)
           ELSE ls = old ]_vars

\* a beam has been fired in this tick with more charge than the threshold,
\* and an enemy has been hit
C32_Witness ==
    /\ ev.op = "tick" /\ "fire_laser" \in ev.calls
    /\ Len(weapon_system.lasers) >= 1
    /\ weapon_system.lasers[Len(weapon_system.lasers)].charge > 30 * MILLI
    /\ weapon_system.laser_charge = 5 * ev.arg
    /\ "enemy_hit" \in ev.calls

\* a beam is in flight after a tick in which nothing but the beams covered
\* the enemies, and an enemy was hit
C32_WitnessHit ==
    /\ ev.op = "tick" /\ plan.free >= 1 /\ plan.last = 11
    /\ "enemy_hit" \in ev.calls
    /\ Len(weapon_system.lasers) >= 1

\* a beam has run out of its lifetime in this tick
C32_WitnessOut ==
    /\ ev.op = "tick" /\ ev.pre.state = "playing"
    /\ ev.pre.beams > Len(weapon_system.lasers)

----------------------------------------------------------------------------
(* One boss for a level. *)

\* C33: the level manager spawns at most one boss for a level: once the
\* level's boss has been destroyed it spawns no further one
C33_OneBossPerLevel ==
    /\ hist.boss_spawned <= 1
    /\ hist.boss_destroyed >= 1 => hist.boss_spawned = hist.boss_destroyed

\* the boss the level manager spawned has been destroyed and removed, and
\* the next update of the level manager finds the slot empty
C33_Witness ==
    /\ ev.op = "tick" /\ game.state = "playing" /\ AllWavesDone
    /\ hist.boss_spawned = 1 /\ hist.boss_destroyed = 1
    /\ enemy_manager.boss = <<>>

\* the second boss of the level is in the slot
C33_WitnessAgain ==
    /\ ev.op = "tick" /\ hist.boss_spawned = 2 /\ hist.boss_destroyed = 1
    /\ enemy_manager.boss # <<>> /\ enemy_manager.boss[1].by = "level"
    /\ enemy_manager.boss[1].active

----------------------------------------------------------------------------
(***************************************************************************)
(* SpecMissile: the flight of one missile through the ticks of the combat. *)
(* It starts in the first wave of level 1 with the weapons at rest; the    *)
(* first tick has the E key down, and the ticks after it are quiet.  The   *)
(* missile circles the first active enemy, which stays 90 degrees to its   *)
(* left, so that it hits nothing and does not leave the screen.  The       *)
(* frames follow a play: 60 a second ("fast"), 10 a second ("slow"), or    *)
(* the two in turns ("mixed").                                             *)
(***************************************************************************)

\* the simulated time (ms) the ticks of a flight add up to, at most
MaxFlight == 7000

\* the dt (ms) of the n-th tick of a play
MissileDt(play, n) ==
    CASE play = "fast" -> 16
      [] play = "slow" -> 100
      [] OTHER         -> <<16, 100>>[(n % 2) + 1]

\* the sum of the dt of the ticks 0 .. n - 1 of a play
FlightTime(play, n) ==
    CASE play = "fast" -> 16 * n
      [] play = "slow" -> 100 * n
      [] OTHER         -> 116 * (n \div 2) + 16 * (n % 2)

InitMissile ==
    /\ aircraft = CombatAircraft
    /\ weapon_system = NewWeaponSystem
    /\ enemy_manager = WaveManagers(<<1, 0>>)[1]
    /\ level_manager = WaveManagers(<<1, 0>>)[2]
    /\ powerup_manager = NewPowerUpManager
    /\ game = [NewGame(1) EXCEPT !.state = "playing"]
    /\ hist = NoHistory
    /\ plan \in {[NoPlan EXCEPT !.play = p] : p \in {"fast", "slow", "mixed"}}
    /\ ev = NoEvent
    /\ steps = 0

\* the inputs of the n-th tick in the world w
MissileInput(w, n) ==
    LET ms == w.weapon_system.missiles IN
    [Quiet(MissileDt(plan.play, n), IF n = 0 THEN {"E"} ELSE {})
        EXCEPT !.lock = FirstActive(w.enemy_manager.enemies, 1),
               !.aim = IF ms = <<>> THEN 90000
                       ELSE Normalize(ms[1].angle + 90000)]

\* one SkyFury.update of the combat
MsTick ==
    /\ game.state = "playing"
    /\ FlightTime(plan.play, steps) < MaxFlight
    /\ LET in == MissileInput(World, steps)
           w  == SkyFury_update(World, in)
       IN  Commit(w, Event("tick", in.dt, FALSE, w))
    /\ steps' = steps + 1
    /\ plan' = plan

NextMissile == MsTick

SpecMissile == InitMissile /\ [][NextMissile]_vars

----------------------------------------------------------------------------
(* The lifetime of a missile. *)

\* C34: every missile in flight is advanced once per playing tick, so that a
\* missile that hits nothing and stays inside the play area is still active
\* and in flight after every tick that ends less than 6.0 s of simulated
\* time after it was fired
C34_MissileLifetime ==
    [][ (ev'.op = "tick" /\ FlightTime(plan.play, steps') < 6000) =>
            /\ Len(weapon_system'.missiles) = 1
            /\ weapon_system'.missiles[1].active ]_vars

\* the missile has gone out, having hit nothing and left nothing, in a tick
\* that ended less than 3.1 s after it was fired
C34_Witness ==
    /\ ev.op = "tick" /\ steps > 1
    /\ weapon_system.missiles = <<>>
    /\ weapon_system.missile_count = 4
    /\ "enemy_hit" \notin ev.calls /\ "boss_hit" \notin ev.calls
    /\ FlightTime(plan.play, steps) \in 3000..3100

\* the missile is in flight 2.9 s after it was fired, and has flown twice
\* the path of its speed
C34_WitnessFlying ==
    /\ ev.op = "tick"
    /\ Len(weapon_system.missiles) = 1 /\ weapon_system.missiles[1].active
    /\ FlightTime(plan.play, steps) >= 2900
    /\ weapon_system.missiles[1].flown = 2 * MissileStep(FlightTime(plan.play, steps))

----------------------------------------------------------------------------
(* The shield in the tick of its activation. *)

\* C35: whenever activate_shield has succeeded (cooldown 0 and energy of 40
\* or more, 40 included), the shield is still active after the aircraft
\* update that follows it in the tick (dt below the 5 s of the duration, no
\* hit in between); the weapon update after that does not touch the flag
C35_ShieldStaysUp ==
    [][ ( /\ ev.op \in {"activate_shield", "weapon_controls"}
          /\ "activate_shield" \in ev.calls
          /\ ev'.op = "aircraft_update" )
        => aircraft'.shield_active ]_vars

\* the shield has been activated with an energy of exactly 40 and the
\* aircraft update of the same tick has switched it off
C35_Witness ==
    /\ ev.op = "aircraft_update"
    /\ weapon_system.cooldowns.shield = 8000
    /\ ev.pre.shield_active /\ ev.pre.shield_energy = 0
    /\ ~aircraft.shield_active /\ aircraft.shield_duration = 0

\* the shield has been activated with the pool full and is up after the
\* aircraft update of the same tick
C35_WitnessFull ==
    /\ ev.op = "aircraft_update"
    /\ weapon_system.cooldowns.shield = 8000
    /\ ev.pre.shield_energy = 60 * MILLI
    /\ aircraft.shield_active /\ aircraft.shield_duration = 5000 - ev.arg

\* Where the activation leaves more energy than the aircraft update of the
\* tick drains (3 units per second), the shield is up after that update
C35_ShieldStaysUpWithEnergy ==
    [][ ( /\ ev.op \in {"activate_shield", "weapon_controls"}
          /\ "activate_shield" \in ev.calls
          /\ ev'.op = "aircraft_update"
          /\ weapon_system.shield_energy > 3 * ev'.arg )
        => aircraft'.shield_active ]_vars

----------------------------------------------------------------------------
(* Thrust without fuel. *)

\* C36: in an update that begins with the fuel at 0 the thrust does not
\* increase the horizontal velocity, on the ground as in the air, even when
\* the takeoff controls have raised the thrust before the update
C36_NoThrustWithoutFuel ==
    [][ (ev'.op = "update" /\ aircraft.fuel = 0) =>
            aircraft'.vx <= aircraft.vx ]_vars

\* the takeoff controls have raised the thrust of an aircraft on the runway
\* with no fuel, and the update that followed has left it faster and at
\* thrust 0
C36_Witness ==
    /\ ev.op = "update" /\ ev.pre.on_ground
    /\ ev.pre.fuel = 0 /\ ev.pre.thrust = 5
    /\ aircraft.vx > 0 /\ aircraft.thrust = 0

\* In the air an update that begins with the fuel at 0 does not increase the
\* horizontal velocity
C36_NoThrustWithoutFuelInAir ==
    [][ (ev'.op = "update" /\ aircraft.fuel = 0 /\ ~aircraft.on_ground) =>
            aircraft'.vx <= aircraft.vx ]_vars

----------------------------------------------------------------------------
(* One target for a bullet and for a missile. *)

\* the shots of before that the pass has used: active before, inactive after
UsedShots(before, after) ==
    {i \in DOMAIN before : before[i].active /\ ~after[i].active}

\* the target k of a shot (0: the boss) is there and active in w
LiveTarget(w, k) ==
    IF k = 0 THEN BossActive(w)
    ELSE k \in DOMAIN w.enemy_manager.enemies /\ w.enemy_manager.enemies[k].active

\* the health that the enemies and the boss of w1 have lost in w2
HealthLost(w1, w2) ==
    SumOver([k \in DOMAIN w1.enemy_manager.enemies |->
                w1.enemy_manager.enemies[k].health
                    - w2.enemy_manager.enemies[k].health],
            DOMAIN w1.enemy_manager.enemies)
    + (IF w1.enemy_manager.boss = <<>> THEN 0
       ELSE w1.enemy_manager.boss[1].health - w2.enemy_manager.boss[1].health)

C37_WitnessSpared ==
    /\ ev.op = "collisions"
    /\ ev.arg.bullet_n = 2 /\ ev.arg.bullet_target = 1 /\ ev.arg.missile_n = 0
    /\ ev.pre.inactive = 0
    /\ Len(enemy_manager.enemies) >= 1 /\ ~enemy_manager.enemies[1].active
    /\ Len(weapon_system.bullets) = 2
    /\ ~weapon_system.bullets[1].active /\ weapon_system.bullets[2].active

----------------------------------------------------------------------------
(* The phases of a boss. *)

\* the boss of the slot is active and has entered
BossEntered ==
    /\ enemy_manager.boss # <<>>
    /\ enemy_manager.boss[1].active /\ enemy_manager.boss[1].entered

\* C38: over the Boss.update of a playing tick the phase of the boss does
\* not decrease and rises by one at most, and a rise leaves the transition
\* timer at 2.0 s less the dt of that update; the update of a boss in phase
\* 1 at 33 % of its health or less leaves phase 2, and the update of a boss
\* in phase 2 at 33 % or less leaves phase 3, whatever its timer, so that
\* two updates in a row take such a boss from 1 over 2 to 3
C38_PhaseSteps ==
    [][ ( /\ ev'.op = "tick" /\ game.state = "playing"
          /\ enemy_manager.boss # <<>> /\ enemy_manager.boss[1].active ) =>
        \A b \in {enemy_manager.boss[1]} :
        \A low \in {b.health <= (b.max_health \div 100) * 33} :
        /\ enemy_manager'.boss # <<>>
        /\ LET c == enemy_manager'.boss[1] IN
           /\ c.phase >= b.phase
           /\ c.phase <= b.phase + 1
           /\ c.phase > b.phase =>
                 /\ b.entered
                 /\ c.phase_transition_timer = 2000 - ev'.arg
           /\ (b.entered /\ low /\ b.phase = 1) => c.phase = 2
           /\ (b.entered /\ low /\ b.phase = 2) => c.phase = 3 ]_vars

\* a boss has gone from phase 2 to phase 3 in the update after the one that
\* took it from 1 to 2: its timer had run for one update only
C38_Witness ==
    /\ ev.op = "tick" /\ BossEntered
    /\ ev.pre.boss # <<>> /\ ev.pre.boss[1].phase = 2
    /\ ev.pre.boss[1].phase_transition_timer = 2000 - ev.arg
    /\ enemy_manager.boss[1].phase = 3
    /\ enemy_manager.boss[1].phase_transition_timer = 2000 - ev.arg

\* a boss has gone from phase 1 to phase 2 at 66 % of its health
C38_WitnessSecond ==
    /\ ev.op = "tick" /\ BossEntered
    /\ ev.pre.boss # <<>> /\ ev.pre.boss[1].phase = 1
    /\ ev.pre.boss[1].health > (ev.pre.boss[1].max_health \div 100) * 33
    /\ enemy_manager.boss[1].phase = 2

----------------------------------------------------------------------------
(***************************************************************************)
(* SpecEntry: a boss from its spawning on.  It starts with the boss of one *)
(* of the three levels just spawned, unhurt or hurt during what came       *)
(* before, and every step is one EnemyManager.update, up to                *)
(* MaxBossUpdates of them, at 60 frames a second ("fast") or at 10         *)
(* ("slow").  FairEntry adds that the game loop goes on calling update.    *)
(***************************************************************************)

MaxBossUpdates == 110

\* the share of its health (in 1/100) that the boss starts with
EntryHealths == {100, 50, 30}

InitEntry ==
    /\ aircraft = CombatAircraft
    /\ weapon_system = NewWeaponSystem
    /\ \E level \in 1..3, h \in EntryHealths :
          LET b == NewBoss(LevelManager_get_level_data(level).boss) IN
          /\ enemy_manager =
                 [NewEnemyManager EXCEPT
                     !.boss = << [b EXCEPT !.health = (b.max_health \div 100) * h] >>]
          /\ level_manager =
                 [NewLevelManager(level) EXCEPT
                     !.current_wave = Len(LevelManager_get_level_data(level).waves),
                     !.waves_started = TRUE]
          /\ game = [NewGame(level) EXCEPT !.state = "playing"]
    /\ powerup_manager = NewPowerUpManager
    /\ hist = [NoHistory EXCEPT !.boss_spawned = 1]
    /\ plan \in {[NoPlan EXCEPT !.play = p] : p \in {"fast", "slow"}}
    /\ ev = NoEvent
    /\ steps = 0

\* one EnemyManager.update with a boss in the slot
BsUpdate ==
    /\ steps < MaxBossUpdates
    /\ enemy_manager.boss # <<>>
    /\ \E in \in {[Quiet(IF plan.play = "fast" THEN 16 ELSE 100, {})
                     EXCEPT !.boss_extra = (steps % 2 = 0)]} :
       \E w \in {EnemyManager_update(World, in)} :
          Commit(w, Event("enemy_update", in.dt, FALSE, w))
    /\ steps' = steps + 1
    /\ plan' = plan

NextEntry == BsUpdate

SpecEntry == InitEntry /\ [][NextEntry]_vars

FairEntry == SpecEntry /\ WF_vars(BsUpdate)

----------------------------------------------------------------------------
(* The entry of a boss. *)

\* an update of a boss that has not entered: it fires nothing, keeps its
\* height, its phase and its transition timer, and either glides 3 px to
\* the left, being to the right of x = 650, or is marked as entered; an
\* update that begins with the transition timer positive, or that raises the
\* phase, fires nothing
QuietEntry ==
    \A b \in {enemy_manager.boss[1]} :
    /\ enemy_manager'.boss # <<>>
    /\ LET c == enemy_manager'.boss[1] IN
       /\ ~b.entered =>
             /\ enemy_manager'.projectiles = enemy_manager.projectiles
             /\ c.y = b.y /\ c.phase = b.phase
             /\ c.phase_transition_timer = b.phase_transition_timer
             /\ c.health = b.health
             /\ IF b.x > 650 * MILLI
                THEN c.x = b.x - 3 * MILLI /\ ~c.entered
                ELSE c.x = b.x /\ c.entered
       /\ (b.entered /\ (b.phase_transition_timer > 0 \/ c.phase > b.phase)) =>
             /\ enemy_manager'.projectiles = enemy_manager.projectiles
             /\ c.y = b.y

\* C39: before its entry glide is complete (from x = 900 to the left in
\* steps of 3 until x is no longer right of 650) a boss fires nothing, does
\* not move vertically and does not change phase in any update; it fires
\* nothing in any update in which its phase-transition timer is positive;
\* and the entry is complete after finitely many updates
C39_BossEntry ==
    /\ [][ev'.op = "enemy_update" => QuietEntry]_vars
    /\ <>(enemy_manager.boss # <<>> /\ enemy_manager.boss[1].entered)

\* a boss hurt to 30 % of its health has entered, at x = 648 after 84
\* steps of 3 px and one update more, still in phase 1 and at y = 300, with
\* nothing fired
C39_Witness ==
    /\ ev.op = "enemy_update" /\ steps = 85
    /\ enemy_manager.boss # <<>>
    /\ enemy_manager.boss[1].entered /\ enemy_manager.boss[1].x = 648 * MILLI
    /\ enemy_manager.boss[1].y = 300 * MILLI
    /\ enemy_manager.boss[1].phase = 1
    /\ enemy_manager.boss[1].health = (enemy_manager.boss[1].max_health \div 100) * 30
    /\ enemy_manager.projectiles = <<>>

\* a boss that has entered and is in no transition has fired and has moved
\* vertically
C39_WitnessFires ==
    /\ ev.op = "enemy_update" /\ enemy_manager.boss # <<>>
    /\ enemy_manager.boss[1].entered
    /\ enemy_manager.boss[1].phase_transition_timer <= 0
    /\ enemy_manager.boss[1].y # 300 * MILLI
    /\ enemy_manager.projectiles # <<>>

\* a boss is in a phase transition after its entry, with nothing fired
C39_WitnessTransition ==
    /\ ev.op = "enemy_update" /\ enemy_manager.boss # <<>>
    /\ enemy_manager.boss[1].entered
    /\ enemy_manager.boss[1].phase_transition_timer \in 1..1900
    /\ enemy_manager.projectiles = <<>>

----------------------------------------------------------------------------
(***************************************************************************)
(* SpecLives: the game loop around the loss of a life.  It starts in the   *)
(* combat phase with an aircraft of one, two or three lives that one or    *)
(* two hits destroy, and takes up to MaxLifeTicks steps: an update of the  *)
(* loop in whatever state the game is in, the ESC key, and the R key or    *)
(* the click that restart a game that is over.                             *)
(***************************************************************************)

MaxLifeTicks == 4

InitLives ==
    /\ \E l \in 1..3, h \in {10, 20} :
          aircraft = [CombatAircraft EXCEPT !.lives = l, !.health = h]
    /\ weapon_system = CombatWeapons
    /\ \E ms \in {WaveManagers(<<1, 0>>)} :
          /\ enemy_manager = [ms[1] EXCEPT !.projectiles = <<TRUE, TRUE>>]
          /\ level_manager = ms[2]
          /\ game = [NewGame(ms[2].current_level) EXCEPT !.state = "playing"]
    /\ powerup_manager = NewPowerUpManager
    /\ hist = NoHistory
    /\ plan = NoPlan
    /\ ev = NoEvent
    /\ steps = 0

\* the inputs of an update: nothing; a projectile on the aircraft; an enemy
\* on it; throttle on a long frame
LifeInputs ==
    << Quiet(16, {}),
       [Quiet(16, {}) EXCEPT !.proj_hit = 1],
       [Quiet(16, {}) EXCEPT !.ram = {1}],
       Quiet(100, {"UP"}) >>

\* one iteration of the game loop: SkyFury.update in any state of the game
LfTick ==
    /\ steps < MaxLifeTicks
    /\ \E i \in DOMAIN LifeInputs :
       \E w \in {SkyFury_update(World, LifeInputs[i])} :
          /\ Commit(w, Event("tick", LifeInputs[i].dt, FALSE, w))
          /\ plan' = [plan EXCEPT !.last = i]
    /\ steps' = steps + 1

\* the ESC key
LfEscape ==
    /\ steps < MaxLifeTicks
    /\ game.state \in {"takeoff", "playing", "paused"}
    /\ \E w \in {SkyFury_escape(World)} : Commit(w, Event("escape", 0, FALSE, w))
    /\ steps' = steps + 1
    /\ plan' = plan

\* the R key or a click when the game is over or won
LfRestart ==
    /\ steps < MaxLifeTicks
    /\ game.state \in {"game_over", "victory"}
    /\ \E w \in {SkyFury_start_game(World, game.current_level)} :
          Commit(w, Event("restart", 0, FALSE, w))
    /\ steps' = steps + 1
    /\ plan' = plan

NextLives == LfTick \/ LfEscape \/ LfRestart

SpecLives == InitLives /\ [][NextLives]_vars

----------------------------------------------------------------------------
(* The lives. *)

\* nothing of the simulation changes
Frozen ==
    /\ aircraft' = aircraft /\ weapon_system' = weapon_system
    /\ enemy_manager' = enemy_manager /\ level_manager' = level_manager
    /\ powerup_manager' = powerup_manager /\ game' = game

\* an update of the loop in the combat phase: w is the world that the
\* collision pass leaves.  A life is lost if and only if the health is then
\* at 0, and one only; with the last life the game is over and the health
\* stays at 0, else the game is in the takeoff phase with the health at its
\* maximum; and the game is over after no other update
LifeLostAtZero(w) ==
    /\ aircraft'.lives = aircraft.lives - (IF w.aircraft.health <= 0 THEN 1 ELSE 0)
    /\ w.aircraft.health <= 0 =>
          IF aircraft'.lives = 0
          THEN game'.state = "game_over" /\ aircraft'.health = 0
          ELSE /\ game'.state = "takeoff"
               /\ aircraft'.health = aircraft'.max_health
    /\ game'.state = "game_over" => (w.aircraft.health <= 0 /\ aircraft.lives = 1)

\* C40: across the game loop lives is never negative, and it is 0 only when
\* the game is over; a tick of the combat phase calls lose_life once if the
\* health is at 0 or below after the collisions and not at all otherwise; the
\* tick in which lives reaches 0 is the one that puts the game in the
\* game-over state, after which an update changes nothing, and a tick that
\* leaves a life puts the game in the takeoff phase with the health restored
C40_Lives ==
    /\ [](aircraft.lives >= 0 /\ (aircraft.lives = 0 <=> game.state = "game_over"))
    /\ [][ev'.op = "tick" =>
            CASE game.state = "playing" ->
                   \A w \in {SkyFury_update_combat(World, LifeInputs[plan'.last])} :
                      LifeLostAtZero(w)
              [] game.state = "takeoff" ->
                   aircraft'.lives = aircraft.lives /\ game'.state # "game_over"
              [] OTHER -> Frozen ]_vars

\* the last life is lost in a tick of the combat phase and the game is over
C40_Witness ==
    /\ ev.op = "tick" /\ ev.pre.state = "playing" /\ ev.pre.lives = 1
    /\ aircraft.lives = 0 /\ aircraft.health = 0
    /\ game.state = "game_over"

\* a life of three is lost and the game is in the takeoff phase, the health
\* restored
C40_WitnessRespawn ==
    /\ ev.op = "tick" /\ ev.pre.state = "playing" /\ ev.pre.lives = 3
    /\ aircraft.lives = 2 /\ aircraft.health = aircraft.max_health
    /\ game.state = "takeoff" /\ "respawn" \in ev.calls

\* an update of the loop after the game is over
C40_WitnessAfter ==
    /\ ev.op = "tick" /\ ev.pre.state = "game_over" /\ ev.pre.lives = 0
    /\ game.state = "game_over"

\* a tick of the combat phase that hurts the aircraft and leaves it alive
\* costs no life
C40_WitnessHurt ==
    /\ ev.op = "tick" /\ ev.pre.state = "playing" /\ ev.pre.health = 20
    /\ aircraft.health = 10 /\ aircraft.lives = ev.pre.lives
    /\ game.state = "playing"
=============================================================================
